---- MODULE Spec2Model ----
(***************************************************************************)
(* Music-theory and note-transform core of aurora_melody_sdk.              *)
(*                                                                         *)
(* Every operation of the core is a synchronous pure function.  A call is  *)
(* modelled as a frame <<op, args, result, pc, locals>>: Init draws the    *)
(* operation and its arguments from bounded sets (pc = "call"), and the    *)
(* action named after the operation computes what the code computes and    *)
(* stores it in result (pc = "done").  An operation that draws random      *)
(* numbers inside a loop takes one step per iteration (pc = "loop"), its   *)
(* local variables being in locals.  A Python exception escaping the       *)
(* operation is the result [raised |-> TRUE, value |-> <exception class>]. *)
(*                                                                         *)
(* Strings are sequences of one-character strings; lists are sequences.    *)
(* Beats are counted in ticks of 0.0001 beat, in exact arithmetic: float   *)
(* rounding is not modelled.                                               *)
(***************************************************************************)
EXTENDS Integers, Sequences, FiniteSets, TLC

VARIABLES op, args, result, pc, locals

vars == <<op, args, result, pc, locals>>

(***************************************************************************)
(* Bounds of the explored inputs.                                          *)
(***************************************************************************)
MaxNameLen == 4

PitchMargin == 14

MaxOctaves == 3

MaxInversion == 8

MaxArpNotes == 6

MaxNotesIn == 3

\* the longest list of notes given to quantize_notes
MaxQuantizeNotes == 2

\* the longest list of notes given to humanize
MaxHumanizeNotes == 2

\* the largest num_notes given to random_walk
MaxWalkNotes == 3

\* the latest start_beat a shift is explored to, in ticks
MaxShiftedStart == 20000

(***************************************************************************)
(* Results.                                                                *)
(***************************************************************************)
Ok(v) == [raised |-> FALSE, value |-> v]

Raise(exc) == [raised |-> TRUE, value |-> exc]

NoResult == [raised |-> FALSE, value |-> "none"]

\* the local variables of a call that is not inside a loop
NoLocals == <<>>

Max(a, b) == IF a >= b THEN a ELSE b

Min(a, b) == IF a <= b THEN a ELSE b

Abs(a) == IF a >= 0 THEN a ELSE 0 - a

\* max(0, min(127, x))
Clamp127(x) == Max(0, Min(127, x))

\* Python's floor division by 12
FloorDiv12(x) == IF x >= 0 THEN x \div 12 ELSE 0 - ((11 - x) \div 12)

(***************************************************************************)
(* Characters and the str / int conversions used by NoteName.              *)
(***************************************************************************)
Digits == <<"0", "1", "2", "3", "4", "5", "6", "7", "8", "9">>

IsDigit(c) == \E i \in 1..10 : Digits[i] = c

DigitVal(c) == (CHOOSE i \in 1..10 : Digits[i] = c) - 1

IsSpace(c) == c \in {" "}

\* str.upper() on one character
Upper(c) ==
    CASE c = "a" -> "A" [] c = "b" -> "B" [] c = "c" -> "C" [] c = "d" -> "D"
      [] c = "e" -> "E" [] c = "f" -> "F" [] c = "g" -> "G" [] c = "s" -> "S"
      [] c = "x" -> "X" [] OTHER -> c

RECURSIVE LStrip(_)
LStrip(s) == IF s # <<>> /\ IsSpace(Head(s)) THEN LStrip(Tail(s)) ELSE s

RECURSIVE RStrip(_)
RStrip(s) ==
    IF s # <<>> /\ IsSpace(s[Len(s)]) THEN RStrip(SubSeq(s, 1, Len(s) - 1)) ELSE s

\* str.strip()
Strip(s) == RStrip(LStrip(s))

RECURSIVE DigitsValue(_)
DigitsValue(s) ==
    IF s = <<>> THEN 0
    ELSE 10 * DigitsValue(SubSeq(s, 1, Len(s) - 1)) + DigitVal(s[Len(s)])

AllDigits(s) == s # <<>> /\ \A i \in 1..Len(s) : IsDigit(s[i])

\* an int() that rejects a leading sign
ParseIntUnsigned(text) ==
    LET s == Strip(text)
    IN  IF AllDigits(s) THEN Ok(DigitsValue(s)) ELSE Raise("ValueError")

\* int(text): surrounding whitespace is ignored, one optional sign, then
\* decimal digits; anything else is a ValueError.
ParseInt(text) ==
    LET s == Strip(text)
        signed == s # <<>> /\ Head(s) \in {"-", "+"}
        body == IF signed THEN Tail(s) ELSE s
    IN  IF AllDigits(body)
        THEN Ok(IF signed /\ Head(s) = "-" THEN 0 - DigitsValue(body)
                ELSE DigitsValue(body))
        ELSE Raise("ValueError")

RECURSIVE NatToStr(_)
NatToStr(n) ==
    IF n < 10 THEN <<Digits[n + 1]>>
    ELSE NatToStr(n \div 10) \o <<Digits[(n % 10) + 1]>>

\* f"{n}" for an int
IntToStr(n) == IF n < 0 THEN <<"-">> \o NatToStr(0 - n) ELSE NatToStr(n)

(***************************************************************************)
(* NoteName (theory/notes.py)                                              *)
(***************************************************************************)
NOTE_TO_PC == [C |-> 0, D |-> 2, E |-> 4, F |-> 5, G |-> 7, A |-> 9, B |-> 11]

PC_TO_NOTE_SHARP ==
    << <<"C">>, <<"C", "#">>, <<"D">>, <<"D", "#">>, <<"E">>, <<"F">>,
       <<"F", "#">>, <<"G">>, <<"G", "#">>, <<"A">>, <<"A", "#">>, <<"B">> >>

PC_TO_NOTE_FLAT ==
    << <<"C">>, <<"D", "b">>, <<"D">>, <<"E", "b">>, <<"E">>, <<"F">>,
       <<"G", "b">>, <<"G">>, <<"A", "b">>, <<"A">>, <<"B", "b">>, <<"B">> >>

IsAccidental(c) == c \in {"#", "b", "s", "f"}

\* number of iterations of the accidental loop
RECURSIVE AccidentalRun(_)
AccidentalRun(remaining) ==
    IF remaining # <<>> /\ IsAccidental(Head(remaining))
    THEN 1 + AccidentalRun(Tail(remaining))
    ELSE 0

\* value of modifier after the accidental loop
RECURSIVE Modifier(_)
Modifier(remaining) ==
    IF remaining # <<>> /\ IsAccidental(Head(remaining))
    THEN (IF Head(remaining) \in {"#", "s"} THEN 1 ELSE 0 - 1)
         + Modifier(Tail(remaining))
    ELSE 0

\* pitch_class after the accidentals have been applied
AccidentalPitchClass(pitch_class, modifier) == (pitch_class + modifier) % 12

\* the octave parsed from what follows the accidentals
ParseOctave(remaining, default_octave) ==
    IF remaining # <<>>
    THEN (IF ParseInt(remaining).raised THEN default_octave
          ELSE ParseInt(remaining).value)
    ELSE default_octave

\* midi before the final clamp, for a name that has a note letter
ToMidiUnclamped(stripped, default_octave) ==
    LET remaining == Tail(stripped)
        rest == SubSeq(remaining, AccidentalRun(remaining) + 1, Len(remaining))
        pitch_class == AccidentalPitchClass(NOTE_TO_PC[Upper(Head(stripped))],
                                            Modifier(remaining))
        octave == ParseOctave(rest, default_octave)
    IN  (octave + 1) * 12 + pitch_class

\* note_name[0] of the stripped name
FirstChar(stripped) ==
    IF stripped = <<>> THEN Raise("IndexError") ELSE Ok(Head(stripped))

ToMidi(note_name, default_octave) ==
    IF note_name = <<>> THEN Ok(60)
    ELSE LET stripped == Strip(note_name)
             first == FirstChar(stripped)
         IN  IF first.raised THEN first
             ELSE IF Upper(first.value) \notin DOMAIN NOTE_TO_PC THEN Ok(60)
             ELSE Ok(Clamp127(ToMidiUnclamped(stripped, default_octave)))

FromMidi(midi_number, use_flats) ==
    LET clamped == Clamp127(midi_number)
        octave == FloorDiv12(clamped) - 1
        pitch_class == clamped % 12
        note_name == IF use_flats THEN PC_TO_NOTE_FLAT[pitch_class + 1]
                     ELSE PC_TO_NOTE_SHARP[pitch_class + 1]
    IN  Ok(note_name \o IntToStr(octave))

(***************************************************************************)
(* Inputs of the NoteName calls.                                           *)
(***************************************************************************)
NameChars == {"C", "B", "b", "s", "#", "x", "4", "1", "-", " "}

RECURSIVE SeqsUpTo(_, _)
SeqsUpTo(S, n) ==
    IF n = 0 THEN {<<>>}
    ELSE LET shorter == SeqsUpTo(S, n - 1)
         IN  shorter \cup {Append(s, c) : s \in shorter, c \in S}

Names == SeqsUpTo(NameChars, MaxNameLen)

DefaultOctaves == {4, 0}

MidiNumbers == (0 - 3)..130

InitNoteName ==
    /\ pc = "call"
    /\ result = NoResult
    /\ locals = NoLocals
    /\ \/ /\ op = "to_midi"
          /\ args \in [note_name : Names, default_octave : DefaultOctaves]
       \/ /\ op = "from_midi"
          /\ args \in [midi_number : MidiNumbers, use_flats : BOOLEAN]

to_midi ==
    /\ pc = "call"
    /\ op = "to_midi"
    /\ result' = ToMidi(args.note_name, args.default_octave)
    /\ pc' = "done"
    /\ UNCHANGED <<op, args, locals>>

from_midi ==
    /\ pc = "call"
    /\ op = "from_midi"
    /\ result' = FromMidi(args.midi_number, args.use_flats)
    /\ pc' = "done"
    /\ UNCHANGED <<op, args, locals>>

NextNoteName == to_midi \/ from_midi

SpecNoteName == InitNoteName /\ [][NextNoteName]_vars

Returned(o) == pc = "done" /\ op = o

(***************************************************************************)
(* Scale (theory/scales.py)                                                *)
(***************************************************************************)
MAJOR == <<0, 2, 4, 5, 7, 9, 11>>

MINOR == <<0, 2, 3, 5, 7, 8, 10>>

HARMONIC_MINOR == <<0, 2, 3, 5, 7, 8, 11>>

MELODIC_MINOR == <<0, 2, 3, 5, 7, 9, 11>>

PENTATONIC_MAJOR == <<0, 2, 4, 7, 9>>

PENTATONIC_MINOR == <<0, 3, 5, 7, 10>>

BLUES == <<0, 3, 5, 6, 7, 10>>

DORIAN == <<0, 2, 3, 5, 7, 9, 10>>

PHRYGIAN == <<0, 1, 3, 5, 7, 8, 10>>

LYDIAN == <<0, 2, 4, 6, 7, 9, 11>>

MIXOLYDIAN == <<0, 2, 4, 5, 7, 9, 10>>

LOCRIAN == <<0, 1, 3, 5, 6, 8, 10>>

CHROMATIC == <<0, 1, 2, 3, 4, 5, 6, 7, 8, 9, 10, 11>>

WHOLE_TONE == <<0, 2, 4, 6, 8, 10>>

DIMINISHED == <<0, 2, 3, 5, 6, 8, 9, 11>>

AUGMENTED == <<0, 3, 4, 7, 8, 11>>

HIRAJOSHI == <<0, 2, 3, 7, 8>>

IN_SEN == <<0, 1, 5, 7, 10>>

HUNGARIAN_MINOR == <<0, 2, 3, 6, 7, 8, 11>>

SPANISH == <<0, 1, 4, 5, 7, 8, 10>>

ARABIC == <<0, 1, 4, 5, 7, 8, 11>>

ScaleCatalog ==
    {MAJOR, MINOR, HARMONIC_MINOR, MELODIC_MINOR, PENTATONIC_MAJOR,
     PENTATONIC_MINOR, BLUES, DORIAN, PHRYGIAN, LYDIAN, MIXOLYDIAN, LOCRIAN,
     CHROMATIC, WHOLE_TONE, DIMINISHED, AUGMENTED, HIRAJOSHI, IN_SEN,
     HUNGARIAN_MINOR, SPANISH, ARABIC}

\* 0 <= note <= 127
InMidiRange(note) == 0 <= note /\ note <= 127

\* a get_notes that clamps out-of-range values instead of dropping them
OctaveNotesClamped(root, scale, octave) ==
    [i \in 1..Len(scale) |-> Clamp127(root + scale[i] + (octave * 12))]

\* the notes one pass of the inner loop appends
OctaveNotes(root, scale, octave) ==
    SelectSeq([i \in 1..Len(scale) |-> root + scale[i] + (octave * 12)],
              InMidiRange)

RECURSIVE GetNotesLoop(_, _, _, _)
GetNotesLoop(root, scale, octave, octaves) ==
    IF octave >= octaves THEN <<>>
    ELSE OctaveNotes(root, scale, octave)
         \o GetNotesLoop(root, scale, octave + 1, octaves)

ScaleGetNotes(root, scale, octaves) == GetNotesLoop(root, scale, 0, octaves)

\* interval in scale
Contains(list, x) == \E i \in 1..Len(list) : list[i] = x

IsInScale(note, root, scale) == Contains(scale, (note - root) % 12)

\* min(scale_notes, key=lambda x: abs(x - note)): the first minimal element
MinByDistance(scale_notes, note) ==
    LET first == CHOOSE i \in 1..Len(scale_notes) :
                    /\ \A j \in 1..Len(scale_notes) :
                          Abs(scale_notes[i] - note) <= Abs(scale_notes[j] - note)
                    /\ \A j \in 1..(i - 1) :
                          Abs(scale_notes[j] - note) > Abs(scale_notes[i] - note)
    IN  scale_notes[first]

NearestScaleNote(note, root, scale) ==
    LET base == (FloorDiv12(note) * 12) + (root % 12)
        scale_notes == ScaleGetNotes(base - 12, scale, 3)
    IN  IF scale_notes = <<>> THEN note ELSE MinByDistance(scale_notes, note)

(***************************************************************************)
(* Chord (theory/chords.py)                                                *)
(***************************************************************************)
ChordMAJOR == <<0, 4, 7>>

ChordMINOR == <<0, 3, 7>>

ChordDIMINISHED == <<0, 3, 6>>

ChordAUGMENTED == <<0, 4, 8>>

SUS2 == <<0, 2, 7>>

SUS4 == <<0, 5, 7>>

MAJOR_7 == <<0, 4, 7, 11>>

MINOR_7 == <<0, 3, 7, 10>>

DOMINANT_7 == <<0, 4, 7, 10>>

DIMINISHED_7 == <<0, 3, 6, 9>>

HALF_DIMINISHED_7 == <<0, 3, 6, 10>>

MINOR_MAJOR_7 == <<0, 3, 7, 11>>

AUGMENTED_7 == <<0, 4, 8, 10>>

AUGMENTED_MAJOR_7 == <<0, 4, 8, 11>>

MAJOR_9 == <<0, 4, 7, 11, 14>>

MINOR_9 == <<0, 3, 7, 10, 14>>

DOMINANT_9 == <<0, 4, 7, 10, 14>>

MAJOR_11 == <<0, 4, 7, 11, 14, 17>>

MINOR_11 == <<0, 3, 7, 10, 14, 17>>

MAJOR_13 == <<0, 4, 7, 11, 14, 17, 21>>

ADD9 == <<0, 4, 7, 14>>

ADD11 == <<0, 4, 7, 17>>

POWER == <<0, 7>>

POWER_OCTAVE == <<0, 7, 12>>

SIXTH == <<0, 4, 7, 9>>

MINOR_6 == <<0, 3, 7, 9>>

ChordCatalog ==
    {ChordMAJOR, ChordMINOR, ChordDIMINISHED, ChordAUGMENTED, SUS2, SUS4,
     MAJOR_7, MINOR_7, DOMINANT_7, DIMINISHED_7, HALF_DIMINISHED_7,
     MINOR_MAJOR_7, AUGMENTED_7, AUGMENTED_MAJOR_7, MAJOR_9, MINOR_9,
     DOMINANT_9, MAJOR_11, MINOR_11, MAJOR_13, ADD9, ADD11, POWER,
     POWER_OCTAVE, SIXTH, MINOR_6}

ChordGetNotes(root, chord_type) ==
    SelectSeq([i \in 1..Len(chord_type) |-> root + chord_type[i]], InMidiRange)

\* an inversion step that rotates without raising the octave
InversionStepSameOctave(notes) == Tail(notes) \o <<Head(notes)>>

\* one pass of the inversion loop: notes[0] += 12; notes = notes[1:] + [notes[0]]
InversionStep(notes) == Tail(notes) \o <<Head(notes) + 12>>

RECURSIVE InversionLoop(_, _)
InversionLoop(notes, times) ==
    IF times <= 0 THEN notes ELSE InversionLoop(InversionStep(notes), times - 1)

\* inversion % len(notes)
InversionCount(inversion, notes) ==
    IF Len(notes) = 0 THEN Raise("ZeroDivisionError")
    ELSE Ok(inversion % Len(notes))

GetInversion(root, chord_type, inversion) ==
    LET notes == ChordGetNotes(root, chord_type)
        times == InversionCount(inversion, notes)
    IN  IF times.raised THEN times ELSE Ok(InversionLoop(notes, times.value))

\* the movement of one candidate voice
VoiceMovement(candidate, from_chord, i) ==
    IF i <= Len(from_chord) THEN Abs(candidate[i] - from_chord[i]) ELSE 12

RECURSIVE MovementLoop(_, _, _)
MovementLoop(candidate, from_chord, i) ==
    IF i > Len(candidate) THEN 0
    ELSE VoiceMovement(candidate, from_chord, i)
         + MovementLoop(candidate, from_chord, i + 1)

\* total voice movement of a candidate
Movement(candidate, from_chord) == MovementLoop(candidate, from_chord, 1)

\* best_notes = None, best_movement = float('inf')
NoBest == [found |-> FALSE, notes |-> <<>>, movement |-> 0]

\* a comparison that lets a later candidate of equal movement win
ImprovesOrTies(movement, best) == ~best.found \/ movement <= best.movement

\* movement < best_movement
Improves(movement, best) == ~best.found \/ movement < best.movement

RECURSIVE VoiceLeadLoop(_, _, _, _, _)
VoiceLeadLoop(from_chord, to_root, to_type, inv, best) ==
    IF inv >= Len(to_type)
    THEN Ok(IF best.found /\ best.notes # <<>> THEN best.notes
            ELSE ChordGetNotes(to_root, to_type))
    ELSE LET candidate == GetInversion(to_root, to_type, inv)
         IN  IF candidate.raised THEN candidate
             ELSE VoiceLeadLoop(from_chord, to_root, to_type, inv + 1,
                    IF Improves(Movement(candidate.value, from_chord), best)
                    THEN [found |-> TRUE, notes |-> candidate.value,
                          movement |-> Movement(candidate.value, from_chord)]
                    ELSE best)

\* a voice_lead without the check for an empty previous chord
VoiceLeadUnguarded(from_chord, to_root, to_type) ==
    VoiceLeadLoop(from_chord, to_root, to_type, 0, NoBest)

VoiceLead(from_chord, to_root, to_type) ==
    IF from_chord = <<>> THEN Ok(ChordGetNotes(to_root, to_type))
    ELSE VoiceLeadLoop(from_chord, to_root, to_type, 0, NoBest)

(***************************************************************************)
(* Inputs of the Scale and Chord calls.                                    *)
(***************************************************************************)
\* pitch arguments: every valid pitch number and PitchMargin beyond each end
Pitches == (0 - PitchMargin)..(127 + PitchMargin)

\* interval sets that are not catalog scales: chord shapes with offsets of
\* 12 or more, sets without the root, the empty set
IntervalSets ==
    {MAJOR, PENTATONIC_MINOR, BLUES, CHROMATIC, ChordMAJOR, ADD9, POWER_OCTAVE,
     MAJOR_11, <<10>>, <<2, 3>>, <<>>}

ScaleRoots == (0 - 2)..13 \cup {60, 127, 140}

ChordTypes == ChordCatalog \cup {<<7, 0, 4>>, <<>>}

Inversions == (0 - 3)..MaxInversion

PreviousChords ==
    {<<>>, <<62>>, <<66>>, <<48, 55>>, <<60, 64, 67>>, <<64, 67, 72>>,
     <<67, 72, 76>>, <<66, 66, 66>>, <<0, 0, 0>>, <<60, 63, 67, 70>>,
     <<127, 127, 127, 127>>, <<60, 64, 67, 71, 74, 77, 81, 84>>}

ScaleGetNotesInputs ==
    /\ op = "Scale.get_notes"
    /\ args \in [root : Pitches, scale : ScaleCatalog \cup IntervalSets,
                 octaves : 0..MaxOctaves]

IsInScaleInputs ==
    /\ op = "Scale.is_in_scale"
    /\ args \in [note : Pitches, root : ScaleRoots, scale : IntervalSets]

NearestScaleNoteInputs ==
    /\ op = "Scale.nearest_scale_note"
    /\ args \in [note : Pitches, root : ScaleRoots, scale : IntervalSets]

ChordGetNotesInputs ==
    /\ op = "Chord.get_notes"
    /\ args \in [root : Pitches, chord_type : ChordTypes]

GetInversionInputs ==
    /\ op = "Chord.get_inversion"
    /\ args \in [root : Pitches, chord_type : ChordTypes, inversion : Inversions]

VoiceLeadInputs ==
    /\ op = "Chord.voice_lead"
    /\ args \in [from_chord : PreviousChords, to_root : Pitches,
                 to_type : ChordTypes]

InitScale ==
    /\ pc = "call"
    /\ result = NoResult
    /\ locals = NoLocals
    /\ (ScaleGetNotesInputs \/ IsInScaleInputs \/ NearestScaleNoteInputs)

InitChord ==
    /\ pc = "call"
    /\ result = NoResult
    /\ locals = NoLocals
    /\ (ChordGetNotesInputs \/ GetInversionInputs \/ VoiceLeadInputs)

Scale_get_notes ==
    /\ pc = "call"
    /\ op = "Scale.get_notes"
    /\ result' = Ok(ScaleGetNotes(args.root, args.scale, args.octaves))
    /\ pc' = "done"
    /\ UNCHANGED <<op, args, locals>>

is_in_scale ==
    /\ pc = "call"
    /\ op = "Scale.is_in_scale"
    /\ result' = Ok(IsInScale(args.note, args.root, args.scale))
    /\ pc' = "done"
    /\ UNCHANGED <<op, args, locals>>

nearest_scale_note ==
    /\ pc = "call"
    /\ op = "Scale.nearest_scale_note"
    /\ result' = Ok(NearestScaleNote(args.note, args.root, args.scale))
    /\ pc' = "done"
    /\ UNCHANGED <<op, args, locals>>

Chord_get_notes ==
    /\ pc = "call"
    /\ op = "Chord.get_notes"
    /\ result' = Ok(ChordGetNotes(args.root, args.chord_type))
    /\ pc' = "done"
    /\ UNCHANGED <<op, args, locals>>

get_inversion ==
    /\ pc = "call"
    /\ op = "Chord.get_inversion"
    /\ result' = GetInversion(args.root, args.chord_type, args.inversion)
    /\ pc' = "done"
    /\ UNCHANGED <<op, args, locals>>

voice_lead ==
    /\ pc = "call"
    /\ op = "Chord.voice_lead"
    /\ result' = VoiceLead(args.from_chord, args.to_root, args.to_type)
    /\ pc' = "done"
    /\ UNCHANGED <<op, args, locals>>

NextScale == Scale_get_notes \/ is_in_scale \/ nearest_scale_note

NextChord == Chord_get_notes \/ get_inversion \/ voice_lead

SpecScale == InitScale /\ [][NextScale]_vars

SpecChord == InitChord /\ [][NextChord]_vars

(***************************************************************************)
(* MidiNote (note.py)                                                      *)
(***************************************************************************)
\* the smallest length_beats, 0.01 beat, in ticks
MinLength == 100

\* one beat in ticks
Beat == 100 * MinLength

\* the mutation of the constructor: __post_init__ left out
MidiNoteUnchecked(note_number, start_beat, length_beats, velocity, channel) ==
    [note_number |-> note_number, start_beat |-> start_beat,
     length_beats |-> length_beats, velocity |-> velocity,
     channel |-> channel]

\* the constructor with __post_init__
MidiNote(note_number, start_beat, length_beats, velocity, channel) ==
    [note_number |-> Max(0, Min(127, note_number)),
     start_beat |-> Max(0, start_beat),
     length_beats |-> Max(MinLength, length_beats),
     velocity |-> Max(1, Min(127, velocity)),
     channel |-> Max(1, Min(16, channel))]

end_beat(note) == note.start_beat + note.length_beats

(***************************************************************************)
(* arpeggiate (utils/generators.py)                                        *)
(***************************************************************************)
Reversed(list) == [i \in 1..Len(list) |-> list[Len(list) + 1 - i]]

\* chord_notes[1:-1]
Interior(list) == SubSeq(list, 2, Len(list) - 1)

\* the orders random.shuffle can leave the list in
Shuffles(list) ==
    {[i \in 1..Len(list) |-> list[f[i]]] :
        f \in {g \in [1..Len(list) -> 1..Len(list)] :
                  \A i, j \in 1..Len(list) : g[i] = g[j] => i = j}}

\* the mutation of the pattern branch: the turning points are repeated,
\* 'updown' being the chord followed by the whole reversed chord and
\* 'downup' the reversed chord followed by the whole chord
PatternSequencesRepeatEnds(chord_notes, pattern) ==
    CASE pattern = "down" -> {Reversed(chord_notes)}
      [] pattern = "updown" -> {chord_notes \o Reversed(chord_notes)}
      [] pattern = "downup" -> {Reversed(chord_notes) \o chord_notes}
      [] pattern = "random" -> Shuffles(chord_notes)
      [] OTHER -> {chord_notes}

\* the sequences the pattern branch can build
PatternSequences(chord_notes, pattern) ==
    CASE pattern = "down" -> {Reversed(chord_notes)}
      [] pattern = "updown" ->
            {chord_notes \o Reversed(IF Len(chord_notes) > 2
                                     THEN Interior(chord_notes) ELSE <<>>)}
      [] pattern = "downup" ->
            {IF Len(chord_notes) > 2
             THEN Reversed(chord_notes) \o Interior(chord_notes)
             ELSE Reversed(chord_notes)}
      [] pattern = "random" -> Shuffles(chord_notes)
      [] OTHER -> {chord_notes}

\* actual_length * 0.9
TimesNineTenths(ticks) ==
    IF ticks >= 0 THEN (ticks * 9) \div 10 ELSE 0 - (((0 - ticks) * 9) \div 10)

\* the note one pass of the loop appends, given the velocity drawn
ArpeggioNote(a, l, drawn) ==
    LET note_number == l.sequence[(l.idx % Len(l.sequence)) + 1]
        velocity == IF l.idx % Len(l.sequence) = 0
                    THEN Min(127, drawn + 10) ELSE drawn
        actual_length == Min(a.note_length,
                             a.start_beat + a.total_beats - l.current_beat)
    IN  MidiNote(note_number, l.current_beat, TimesNineTenths(actual_length),
                 velocity, 1)

\* the check for an empty chord and the pattern branch
arpeggiate_enter ==
    /\ pc = "call"
    /\ op = "arpeggiate"
    /\ IF args.chord_notes = <<>>
       THEN /\ result' = Ok(<<>>)
            /\ pc' = "done"
            /\ UNCHANGED locals
       ELSE /\ \E sequence \in PatternSequences(args.chord_notes, args.pattern) :
                  locals' = [sequence |-> sequence, notes |-> <<>>,
                             current_beat |-> args.start_beat, idx |-> 0]
            /\ pc' = "loop"
            /\ UNCHANGED result
    /\ UNCHANGED <<op, args>>

\* one test of the while condition and, when it holds, one pass of the body;
\* the passes explored are capped at MaxArpNotes
arpeggiate_loop ==
    /\ pc = "loop"
    /\ op = "arpeggiate"
    /\ IF locals.current_beat < args.start_beat + args.total_beats
       THEN /\ Len(locals.notes) < MaxArpNotes
            /\ IF args.velocity_range[1] > args.velocity_range[2]
               THEN /\ result' = Raise("ValueError")
                    /\ pc' = "done"
                    /\ UNCHANGED locals
               ELSE /\ \E drawn \in args.velocity_range[1]..args.velocity_range[2] :
                          locals' = [locals EXCEPT
                              !.notes = Append(@, ArpeggioNote(args, locals, drawn)),
                              !.current_beat = @ + args.note_length,
                              !.idx = @ + 1]
                    /\ UNCHANGED <<result, pc>>
       ELSE /\ result' = Ok(locals.notes)
            /\ pc' = "done"
            /\ UNCHANGED locals
    /\ UNCHANGED <<op, args>>

(***************************************************************************)
(* remove_overlaps (utils/quantize.py)                                     *)
(***************************************************************************)
\* comparison of two sort keys, tuples of two numbers
KeyLess(k, m) == k[1] < m[1] \/ (k[1] = m[1] /\ k[2] < m[2])

\* sorted(list, key) on a list of <<key, element>>: inserting x after the
\* elements that do not come after it keeps equal keys in their order (the
\* sort is stable)
RECURSIVE InsertSorted(_, _)
InsertSorted(sorted, x) ==
    IF sorted = <<>> THEN <<x>>
    ELSE IF KeyLess(x[1], sorted[Len(sorted)][1])
         THEN Append(InsertSorted(SubSeq(sorted, 1, Len(sorted) - 1), x),
                     sorted[Len(sorted)])
         ELSE Append(sorted, x)

RECURSIVE SortKeyed(_)
SortKeyed(keyed) ==
    IF keyed = <<>> THEN <<>>
    ELSE InsertSorted(SortKeyed(SubSeq(keyed, 1, Len(keyed) - 1)),
                      keyed[Len(keyed)])

\* sorted(notes, key=lambda n: (n.start_beat, n.note_number))
SortedByStartThenPitch(list) ==
    LET keyed == [i \in 1..Len(list) |->
                    <<<<list[i].note.start_beat, list[i].note.note_number>>,
                      list[i]>>]
    IN  [i \in 1..Len(list) |-> SortKeyed(keyed)[i][2]]

\* sorted(result, key=lambda n: n.start_beat)
SortedByStart(list) ==
    LET keyed == [i \in 1..Len(list) |->
                    <<<<list[i].note.start_beat, 0>>, list[i]>>]
    IN  [i \in 1..Len(list) |-> SortKeyed(keyed)[i][2]]

\* the objects of the input list: each note with its identity, its position
\* in the list (the list holds distinct objects); a note built by the
\* function has identity 0
Objects(notes) == [i \in 1..Len(notes) |-> [id |-> i, note |-> notes[i]]]

\* the keys of note_groups in insertion order
RECURSIVE GroupKeys(_)
GroupKeys(sorted_notes) ==
    IF sorted_notes = <<>> THEN <<>>
    ELSE LET before == GroupKeys(SubSeq(sorted_notes, 1, Len(sorted_notes) - 1))
             key == sorted_notes[Len(sorted_notes)].note.note_number
         IN  IF Contains(before, key) THEN before ELSE Append(before, key)

\* note_groups[note_num]
Group(sorted_notes, note_num) ==
    SelectSeq(sorted_notes, LAMBDA x : x.note.note_number = note_num)

\* result after "for i, r in enumerate(result): if r is prev_note: ... break"
ReplaceObject(res, prev_note, new_length) ==
    IF \E i \in 1..Len(res) : res[i].id = prev_note.id
    THEN LET i == CHOOSE k \in 1..Len(res) :
                     /\ res[k].id = prev_note.id
                     /\ \A j \in 1..(k - 1) : res[j].id # prev_note.id
         IN  [res EXCEPT ![i] =
                [id |-> 0,
                 note |-> MidiNote(prev_note.note.note_number,
                                   prev_note.note.start_beat, new_length,
                                   prev_note.note.velocity,
                                   prev_note.note.channel)]]
    ELSE res

\* the state <<result, prev_note>> after one pass of the inner loop; no
\* previous note is the identity -1.  (A new_length of exactly 0.01 beat is
\* compared here as the exact number; the explored notes avoid it.)
NoPrev == [id |-> 0 - 1]

\* the mutation of the inner loop: a note skipped in mode 'remove' becomes
\* the note the next ones are compared with
GroupStepPrevDiscarded(state, note, mode) ==
    LET res == state[1]
        prev_note == state[2]
    IN  IF prev_note = NoPrev THEN <<Append(res, note), note>>
        ELSE IF note.note.start_beat >= end_beat(prev_note.note)
        THEN <<Append(res, note), note>>
        ELSE IF mode = "truncate"
        THEN LET new_length == note.note.start_beat - prev_note.note.start_beat
             IN  <<Append(IF new_length > MinLength
                          THEN ReplaceObject(res, prev_note, new_length)
                          ELSE res, note),
                   note>>
        ELSE <<res, note>>

GroupStep(state, note, mode) ==
    LET res == state[1]
        prev_note == state[2]
    IN  IF prev_note = NoPrev THEN <<Append(res, note), note>>
        ELSE IF note.note.start_beat >= end_beat(prev_note.note)
        THEN <<Append(res, note), note>>
        ELSE IF mode = "truncate"
        THEN LET new_length == note.note.start_beat - prev_note.note.start_beat
             IN  <<Append(IF new_length > MinLength
                          THEN ReplaceObject(res, prev_note, new_length)
                          ELSE res, note),
                   note>>
        ELSE state

RECURSIVE GroupLoop(_, _, _)
GroupLoop(state, group, mode) ==
    IF group = <<>> THEN state
    ELSE GroupLoop(GroupStep(state, Head(group), mode), Tail(group), mode)

\* the mutation of the outer loop: the notes are not grouped by pitch
GroupsLoopOneGroup(res, keys, sorted_notes, mode) ==
    GroupLoop(<<res, NoPrev>>, sorted_notes, mode)[1]

RECURSIVE GroupsLoop(_, _, _, _)
GroupsLoop(res, keys, sorted_notes, mode) ==
    IF keys = <<>> THEN res
    ELSE GroupsLoop(GroupLoop(<<res, NoPrev>>,
                              Group(sorted_notes, Head(keys)), mode)[1],
                    Tail(keys), sorted_notes, mode)

RemoveOverlaps(notes, mode) ==
    IF notes = <<>> THEN <<>>
    ELSE LET sorted_notes == SortedByStartThenPitch(Objects(notes))
             res == GroupsLoop(<<>>, GroupKeys(sorted_notes), sorted_notes, mode)
             out == SortedByStart(res)
         IN  [i \in 1..Len(out) |-> out[i].note]

remove_overlaps ==
    /\ pc = "call"
    /\ op = "remove_overlaps"
    /\ result' = Ok(RemoveOverlaps(args.notes, args.mode))
    /\ pc' = "done"
    /\ UNCHANGED <<op, args, locals>>

(***************************************************************************)
(* Inputs of the calls that take a collection.                             *)
(***************************************************************************)
ArpeggioChords ==
    {<<>>, <<60>>, <<60, 64>>, <<60, 64, 67>>, <<67, 60, 64, 72>>}

Patterns == {"up", "down", "updown", "downup", "random", "sideways"}

ArpeggiateInputs ==
    /\ op = "arpeggiate"
    /\ args \in [chord_notes : ArpeggioChords,
                 pattern : Patterns,
                 start_beat : {0 - (Beat \div 2), 0, Beat \div 2},
                 total_beats : {0, Beat \div 2, Beat + (MinLength \div 2)},
                 note_length : {0 - (Beat \div 4), 0, Beat \div 4, Beat \div 2},
                 velocity_range : {<<70, 71>>, <<126, 127>>, <<100, 70>>}]

\* the notes the explored lists are made of: already constructed MidiNotes
InputNotes ==
    [note_number : {60, 64},
     start_beat : {0, MinLength \div 2, Beat \div 2},
     length_beats : {Beat \div 2, Beat},
     velocity : {100},
     channel : {1}]

RemoveOverlapsInputs ==
    /\ op = "remove_overlaps"
    /\ args \in [notes : SeqsUpTo(InputNotes, MaxNotesIn),
                 mode : {"truncate", "remove"}]

InitCollections ==
    /\ pc = "call"
    /\ result = NoResult
    /\ locals = NoLocals
    /\ (VoiceLeadInputs \/ ArpeggiateInputs \/ RemoveOverlapsInputs)

NextCollections ==
    voice_lead \/ arpeggiate_enter \/ arpeggiate_loop \/ remove_overlaps

SpecCollections == InitCollections /\ [][NextCollections]_vars

(***************************************************************************)
(* quantize_beat, quantize_notes (utils/quantize.py)                       *)
(***************************************************************************)
\* the mutation of round(): always towards minus infinity
RoundDown(num, den) == num \div den

\* round(num / den) for den > 0: the nearest integer, a tie going to the
\* even one
RoundHalfEven(num, den) ==
    LET q == num \div den
        r == num - (q * den)
    IN  IF 2 * r < den THEN q
        ELSE IF 2 * r > den THEN q + 1
        ELSE IF q % 2 = 0 THEN q ELSE q + 1

\* the mutation of quantize_beat: half of the way to the grid
QuantizeBeatHalfway(beat, resolution) ==
    IF resolution <= 0 THEN beat
    ELSE beat + (((RoundHalfEven(beat, resolution) * resolution) - beat) \div 2)

QuantizeBeat(beat, resolution) ==
    IF resolution <= 0 THEN beat
    ELSE RoundHalfEven(beat, resolution) * resolution

\* the note one pass of the loop of quantize_notes appends
QuantizedNote(note, resolution, quantize_length) ==
    LET new_start == QuantizeBeat(note.start_beat, resolution)
        new_length == IF quantize_length
                      THEN Max(resolution,
                               QuantizeBeat(note.length_beats, resolution))
                      ELSE note.length_beats
    IN  MidiNote(note.note_number, new_start, new_length, note.velocity,
                 note.channel)

QuantizeNotes(notes, resolution, quantize_length) ==
    [i \in 1..Len(notes) |-> QuantizedNote(notes[i], resolution, quantize_length)]

quantize_beat ==
    /\ pc = "call"
    /\ op = "quantize_beat"
    /\ result' = Ok(QuantizeBeat(args.beat, args.resolution))
    /\ pc' = "done"
    /\ UNCHANGED <<op, args, locals>>

quantize_notes ==
    /\ pc = "call"
    /\ op = "quantize_notes"
    /\ result' = Ok(QuantizeNotes(args.notes, args.resolution,
                                  args.quantize_length))
    /\ pc' = "done"
    /\ UNCHANGED <<op, args, locals>>

(***************************************************************************)
(* humanize (utils/quantize.py)                                            *)
(***************************************************************************)
\* the values random.uniform(a, b) can return, a + (b - a) * random(): the
\* ticks between the two ends, whichever is the larger
Uniform(a, b) == Min(a, b)..Max(a, b)

\* the values random.randint(a, b) can return; an empty range raises
\* ValueError
RandInt(a, b) == a..b

\* the note one pass of the loop of humanize appends, given the three draws
HumanizedNote(note, timing_offset, vel_offset, length_offset) ==
    LET new_start == Max(0, note.start_beat + timing_offset)
        new_velocity == Max(1, Min(127, note.velocity + vel_offset))
        new_length == Max(MinLength, note.length_beats + length_offset)
    IN  MidiNote(note.note_number, new_start, new_length, new_velocity,
                 note.channel)

\* the three draws of one pass
HumanizeDraws(a) ==
    [timing_offset : Uniform(0 - a.timing_variance, a.timing_variance),
     vel_offset : RandInt(0 - a.velocity_variance, a.velocity_variance),
     length_offset : Uniform(0 - a.length_variance, a.length_variance)]

\* the whole loop: the first pass raises when randint has nothing to draw
humanize ==
    /\ pc = "call"
    /\ op = "humanize"
    /\ IF args.notes # <<>> /\ RandInt(0 - args.velocity_variance,
                                       args.velocity_variance) = {}
       THEN result' = Raise("ValueError")
       ELSE \E draws \in [1..Len(args.notes) -> HumanizeDraws(args)] :
                result' = Ok([i \in 1..Len(args.notes) |->
                                HumanizedNote(args.notes[i],
                                              draws[i].timing_offset,
                                              draws[i].vel_offset,
                                              draws[i].length_offset)])
    /\ pc' = "done"
    /\ UNCHANGED <<op, args, locals>>

(***************************************************************************)
(* Inputs of quantize_beat, quantize_notes and humanize.                   *)
(***************************************************************************)
QuantizeBeats ==
    ((0 - 30)..60) \cup {1250, 3750, 4000, 10000, 11300, 13700, 16000}

Resolutions ==
    {0 - (Beat \div 4), 0 - 1, 0, 1, 2, 3, 7, 30,
     Beat \div 4, Beat \div 2, Beat}

QuantizeBeatInputs ==
    /\ op = "quantize_beat"
    /\ args \in [beat : QuantizeBeats, resolution : Resolutions]

\* constructed notes, on and off the grids
QuantizeNotesIn ==
    [note_number : {60},
     start_beat : {0, 1250, 1300, 8700},
     length_beats : {MinLength, 3700, Beat \div 2},
     velocity : {100},
     channel : {1}]

QuantizeNotesInputs ==
    /\ op = "quantize_notes"
    /\ args \in [notes : SeqsUpTo(QuantizeNotesIn, MaxQuantizeNotes),
                 resolution : {0 - (Beat \div 4), 0, 30, Beat \div 4, Beat},
                 quantize_length : BOOLEAN]

\* constructed notes at and away from the ends of the ranges
HumanizeNotesIn ==
    {MidiNote(60, 0, MinLength, 1, 1),
     MidiNote(64, Beat \div 2, Beat \div 2, 127, 10),
     MidiNote(67, 1, MinLength + 1, 100, 16)}

HumanizeInputs ==
    /\ op = "humanize"
    /\ args \in [notes : SeqsUpTo(HumanizeNotesIn, MaxHumanizeNotes),
                 timing_variance : {0 - 1, 0, 1},
                 velocity_variance : {0 - 1, 0, 1},
                 length_variance : {0, 1}]

InitQuantize ==
    /\ pc = "call"
    /\ result = NoResult
    /\ locals = NoLocals
    /\ (QuantizeBeatInputs \/ QuantizeNotesInputs \/ HumanizeInputs)

NextQuantize == quantize_beat \/ quantize_notes \/ humanize

SpecQuantize == InitQuantize /\ [][NextQuantize]_vars

(***************************************************************************)
(* random_walk (utils/generators.py)                                       *)
(***************************************************************************)
\* the ends of the playable window
WalkLow == 24

WalkHigh == 108

\* the octaves of the scale random_walk builds
WalkOctaves == 10

\* no scale: None or an empty list, both false in `if scale:`
NoScale == <<>>

\* the mutation of the window filter: nothing is filtered out
WalkWindowOpen(list) == list

\* [n for n in scale_notes if 24 <= n <= 108]
WalkWindow(list) == SelectSeq(list, LAMBDA n : WalkLow <= n /\ n <= WalkHigh)

\* scale_notes as the loop uses it
WalkScaleNotes(start_note, scale, root) ==
    LET kept == WalkWindow(ScaleGetNotes(root % 12, scale, WalkOctaves))
    IN  IF kept = <<>> THEN <<start_note>> ELSE kept

\* min(range(len(scale_notes)), key=...): the first index of least distance
\* (positions count from 1 here)
NearestIndex(scale_notes, start_note) ==
    CHOOSE i \in 1..Len(scale_notes) :
        /\ \A j \in 1..Len(scale_notes) :
              Abs(scale_notes[i] - start_note) <= Abs(scale_notes[j] - start_note)
        /\ \A j \in 1..(i - 1) :
              Abs(scale_notes[j] - start_note) > Abs(scale_notes[i] - start_note)

\* current_idx, or current_note without a scale, after the step drawn
WalkStep(a, scale_notes, current, step) ==
    IF a.scale # NoScale
    THEN Max(1, Min(Len(scale_notes), current + step))
    ELSE Max(WalkLow, Min(WalkHigh, current + step))

\* the note pass i (from 0) appends
WalkNote(a, scale_notes, current, i, velocity) ==
    MidiNote(IF a.scale # NoScale THEN scale_notes[current] ELSE current,
             a.start_beat + (i * a.note_length),
             TimesNineTenths(a.note_length), velocity, 1)

\* the notes appended from pass i on
RECURSIVE WalkLoop(_, _, _, _, _)
WalkLoop(a, scale_notes, current, i, draws) ==
    IF i >= a.num_notes THEN <<>>
    ELSE LET next == WalkStep(a, scale_notes, current, draws[i + 1].step)
         IN  <<WalkNote(a, scale_notes, next, i, draws[i + 1].velocity)>>
             \o WalkLoop(a, scale_notes, next, i + 1, draws)

RandomWalk(a, draws) ==
    IF a.scale # NoScale
    THEN LET scale_notes == WalkScaleNotes(a.start_note, a.scale, a.root)
         IN  WalkLoop(a, scale_notes, NearestIndex(scale_notes, a.start_note),
                      0, draws)
    ELSE WalkLoop(a, <<>>, a.start_note, 0, draws)

\* the two draws of one pass
WalkDraws(a) ==
    [step : RandInt(0 - a.step_size, a.step_size),
     velocity : RandInt(a.velocity_range[1], a.velocity_range[2])]

\* the whole call: the first pass raises when a randint has nothing to draw
random_walk ==
    /\ pc = "call"
    /\ op = "random_walk"
    /\ IF args.num_notes > 0 /\ WalkDraws(args) = {}
       THEN result' = Raise("ValueError")
       ELSE \E draws \in [1..args.num_notes -> WalkDraws(args)] :
                result' = Ok(RandomWalk(args, draws))
    /\ pc' = "done"
    /\ UNCHANGED <<op, args, locals>>

RandomWalkInputs ==
    /\ op = "random_walk"
    /\ args \in [start_note : {20, 24, 59, 61, 108, 120},
                 num_notes : (0 - 1)..MaxWalkNotes,
                 step_size : (0 - 1)..2,
                 scale : {NoScale, MAJOR, PENTATONIC_MAJOR, <<200>>},
                 root : {11, 60, 62},
                 start_beat : {0},
                 note_length : {MinLength \div 2, Beat \div 2},
                 velocity_range : {<<100, 100>>, <<100, 70>>}]

InitRandomWalk ==
    /\ pc = "call"
    /\ result = NoResult
    /\ locals = NoLocals
    /\ RandomWalkInputs

NextRandomWalk == random_walk

SpecRandomWalk == InitRandomWalk /\ [][NextRandomWalk]_vars

(***************************************************************************)
(* MidiNote: transpose, shift, to_dict, from_dict, from_name (note.py)     *)
(***************************************************************************)
Transpose(self, semitones) ==
    MidiNote(Max(0, Min(127, self.note_number + semitones)), self.start_beat,
             self.length_beats, self.velocity, self.channel)

Shift(self, beats) ==
    MidiNote(self.note_number, Max(0, self.start_beat + beats),
             self.length_beats, self.velocity, self.channel)

\* a dict is a function from the keys it holds to their values
ToDict(self) ==
    [noteNumber |-> self.note_number, startBeat |-> self.start_beat,
     lengthBeats |-> self.length_beats, velocity |-> self.velocity,
     channel |-> self.channel]

\* data.get(key, default)
Get(data, key, default) == IF key \in DOMAIN data THEN data[key] ELSE default

\* the mutation of from_dict: the snake_case key is looked up first
FromDictSnakeFirst(data) ==
    MidiNote(Get(data, "note_number", Get(data, "noteNumber", 60)),
             Get(data, "start_beat", Get(data, "startBeat", 0)),
             Get(data, "length_beats", Get(data, "lengthBeats", Beat)),
             Get(data, "velocity", 100),
             Get(data, "channel", 1))

FromDict(data) ==
    MidiNote(Get(data, "noteNumber", Get(data, "note_number", 60)),
             Get(data, "startBeat", Get(data, "start_beat", 0)),
             Get(data, "lengthBeats", Get(data, "length_beats", Beat)),
             Get(data, "velocity", 100),
             Get(data, "channel", 1))

\* the result of from_name: the exception of to_midi, or the note
FromName(name, start_beat, length_beats, velocity) ==
    LET midi == ToMidi(name, 4)
    IN  IF midi.raised THEN midi
        ELSE Ok(MidiNote(midi.value, start_beat, length_beats, velocity, 1))

\* the calls that return a note
NoteOps == {"MidiNote", "from_dict", "from_name", "transpose", "shift"}

\* a note has been returned, on which a method can be called
HoldsNote == pc = "done" /\ op \in NoteOps /\ ~result.raised

MidiNote_new ==
    /\ pc = "call"
    /\ op = "MidiNote"
    /\ result' = Ok(MidiNote(args.note_number, args.start_beat,
                             args.length_beats, args.velocity, args.channel))
    /\ pc' = "done"
    /\ UNCHANGED <<op, args, locals>>

from_dict ==
    /\ pc = "call"
    /\ op = "from_dict"
    /\ result' = Ok(FromDict(args.data))
    /\ pc' = "done"
    /\ UNCHANGED <<op, args, locals>>

from_name ==
    /\ pc = "call"
    /\ op = "from_name"
    /\ result' = FromName(args.name, args.start_beat, args.length_beats,
                          args.velocity)
    /\ pc' = "done"
    /\ UNCHANGED <<op, args, locals>>

\* a method call on the note returned last; locals.self is the receiver as
\* the call leaves it (no method assigns to self)
transpose ==
    /\ HoldsNote
    /\ \E semitones \in {0 - 130, 0 - 60, 0, 130} :
          /\ op' = "transpose"
          /\ args' = [self |-> result.value, semitones |-> semitones]
          /\ result' = Ok(Transpose(result.value, semitones))
    /\ locals' = [self |-> result.value]
    /\ UNCHANGED pc

\* the starts explored are capped at MaxShiftedStart
shift ==
    /\ HoldsNote
    /\ \E beats \in {0 - Beat, 0, Beat \div 2} :
          /\ result.value.start_beat + beats <= MaxShiftedStart
          /\ op' = "shift"
          /\ args' = [self |-> result.value, beats |-> beats]
          /\ result' = Ok(Shift(result.value, beats))
    /\ locals' = [self |-> result.value]
    /\ UNCHANGED pc

to_dict ==
    /\ HoldsNote
    /\ op' = "to_dict"
    /\ args' = [self |-> result.value]
    /\ result' = Ok(ToDict(result.value))
    /\ locals' = [self |-> result.value]
    /\ UNCHANGED pc

(***************************************************************************)
(* Inputs of the MidiNote calls.                                           *)
(***************************************************************************)
MidiNoteInputs ==
    /\ op = "MidiNote"
    /\ args \in [note_number : {0 - 1, 0, 60, 127, 128},
                 start_beat : {0 - 1, 0, Beat \div 2},
                 length_beats : {0 - Beat, 0, MinLength - 1, MinLength, Beat},
                 velocity : {0, 1, 100, 127, 128},
                 channel : {0, 1, 16, 17}]

\* a key left out, or the key with one of its values
DictEntries(key, values) == {<<>>} \cup {key :> v : v \in values}

\* dicts with any of the eight keys, values in and out of range
Dicts ==
    {a @@ b @@ c @@ e @@ f @@ g @@ h @@ i :
        a \in DictEntries("noteNumber", {48, 128}),
        b \in DictEntries("note_number", {0 - 1, 60}),
        c \in DictEntries("startBeat", {0 - 1, Beat}),
        e \in DictEntries("start_beat", {2 * Beat}),
        f \in DictEntries("lengthBeats", {0, Beat \div 2}),
        g \in DictEntries("length_beats", {Beat \div 4}),
        h \in DictEntries("velocity", {0, 90}),
        i \in DictEntries("channel", {2, 17})}

FromDictInputs ==
    /\ op = "from_dict"
    /\ args \in [data : Dicts]

FromNameInputs ==
    /\ op = "from_name"
    /\ args \in [name : {<<"C", "4">>, <<"c", "3">>, <<"G", "9">>, <<"C", "-", "1">>,
                         <<"x">>, <<" ">>, <<>>},
                 start_beat : {0 - 1, Beat},
                 length_beats : {0, Beat},
                 velocity : {100, 128}]

InitMidiNote ==
    /\ pc = "call"
    /\ result = NoResult
    /\ locals = NoLocals
    /\ (MidiNoteInputs \/ FromDictInputs \/ FromNameInputs)

NextMidiNote ==
    MidiNote_new \/ from_dict \/ from_name \/ transpose \/ shift \/ to_dict

SpecMidiNote == InitMidiNote /\ [][NextMidiNote]_vars

(***************************************************************************)
(* The calls on a heap of objects.  A list is an object named by a         *)
(* reference (its position in locals.lists) and so is a MidiNote (its      *)
(* position in locals.notes); a list of notes holds references to notes.   *)
(* The first objects are the caller's: the catalog lists and the lists and *)
(* notes the caller passes.  An operation reads the objects its arguments  *)
(* refer to, creates objects of its own and writes in place where the code *)
(* does.  Beats are ticks as above.                                        *)
(***************************************************************************)
\* the calls made one after the other on the same objects
MaxCalls == 2

\* the caller's lists: Chord.MAJOR, Chord.MINOR_7, Scale.PENTATONIC_MAJOR, a
\* chord of pitches, a list of the three notes below, an empty list
CallerLists ==
    <<ChordMAJOR, MINOR_7, PENTATONIC_MAJOR, <<67, 60, 64>>, <<1, 2, 3>>, <<>>>>

\* the caller's notes; the second starts inside the first
CallerNotes ==
    <<MidiNote(60, 0, Beat, 100, 1),
      MidiNote(60, Beat \div 2, Beat, 100, 1),
      MidiNote(64, 1250, 3700, 90, 2)>>

\* the reference passed for None
None == 0

\* [...], list(...), sorted(...), a + b, a[i:j], list.copy(): a new list
NewList(h, value) ==
    [h |-> [h EXCEPT !.lists = Append(@, value)], r |-> Len(h.lists) + 1]

\* MidiNote(...): a new note
NewNote(h, note) ==
    [h |-> [h EXCEPT !.notes = Append(@, note)], r |-> Len(h.notes) + 1]

\* list[i] = x, list[i] += x, random.shuffle(list): the list changes in place
SetList(h, list, value) == [h EXCEPT !.lists[list] = value]

\* list.append(MidiNote(...))
AppendNote(h, list, note) ==
    LET made == NewNote(h, note)
    IN  SetList(made.h, list, Append(made.h.lists[list], made.r))

\* a loop of list.append(MidiNote(...)) over the notes from the i-th on
RECURSIVE AppendNotes(_, _, _, _)
AppendNotes(h, list, notes, i) ==
    IF i > Len(notes) THEN h
    ELSE AppendNotes(AppendNote(h, list, notes[i]), list, notes, i + 1)

\* the notes a list of notes refers to
NotesOf(h, list) == [i \in 1..Len(h.lists[list]) |-> h.notes[h.lists[list][i]]]

\* Scale.get_notes: notes = [] and notes.append(note) in the loops
ScaleGetNotesOn(h, root, scale, octaves) ==
    NewList(h, ScaleGetNotes(root, h.lists[scale], octaves))

\* the mutation of Chord.get_notes: the list given is transposed in place
\* and returned
ChordGetNotesInPlace(h, root, chord_type) ==
    [h |-> SetList(h, chord_type, ChordGetNotes(root, h.lists[chord_type])),
     r |-> chord_type]

\* Chord.get_notes: a list comprehension
ChordGetNotesOn(h, root, chord_type) ==
    NewList(h, ChordGetNotes(root, h.lists[chord_type]))

\* the loop of get_inversion: notes[0] += 12 writes into the list notes
\* refers to, notes = notes[1:] + [notes[0]] makes a new one
RECURSIVE InversionLoopOn(_, _, _)
InversionLoopOn(h, notes, times) ==
    IF times <= 0 THEN [h |-> h, r |-> notes]
    ELSE LET raised == SetList(h, notes, [h.lists[notes] EXCEPT ![1] = @ + 12])
             rotated == NewList(raised, Tail(raised.lists[notes])
                                            \o <<raised.lists[notes][1]>>)
         IN  InversionLoopOn(rotated.h, rotated.r, times - 1)

\* Chord.get_inversion on a root and type that have a tone in range
GetInversionOn(h, root, chord_type, inversion) ==
    LET got == ChordGetNotesOn(h, root, chord_type)
    IN  InversionLoopOn(got.h, got.r, inversion % Len(got.h.lists[got.r]))

\* the loop of voice_lead; best.r is None until a candidate is taken
RECURSIVE VoiceLeadLoopOn(_, _, _, _, _, _)
VoiceLeadLoopOn(h, from_chord, to_root, to_type, inv, best) ==
    IF inv >= Len(h.lists[to_type])
    THEN IF best.r # None /\ h.lists[best.r] # <<>>
         THEN [h |-> h, r |-> best.r]
         ELSE ChordGetNotesOn(h, to_root, to_type)
    ELSE LET candidate == GetInversionOn(h, to_root, to_type, inv)
             movement == Movement(candidate.h.lists[candidate.r],
                                  h.lists[from_chord])
         IN  VoiceLeadLoopOn(candidate.h, from_chord, to_root, to_type, inv + 1,
                             IF best.r = None \/ movement < best.movement
                             THEN [r |-> candidate.r, movement |-> movement]
                             ELSE best)

\* Chord.voice_lead on a root and type that have a tone in range
VoiceLeadOn(h, from_chord, to_root, to_type) ==
    IF h.lists[from_chord] = <<>> THEN ChordGetNotesOn(h, to_root, to_type)
    ELSE VoiceLeadLoopOn(h, from_chord, to_root, to_type, 0,
                         [r |-> None, movement |-> 0])

\* the pattern branch of arpeggiate: every branch makes a new list, and
\* random.shuffle reorders the copy in place; an empty sequence is replaced
\* by chord_notes itself
SequenceOn(h, chord_notes, pattern) ==
    LET made == IF pattern = "random"
                THEN LET copy == NewList(h, h.lists[chord_notes])
                     IN  {[h |-> SetList(copy.h, copy.r, shuffled), r |-> copy.r] :
                             shuffled \in Shuffles(h.lists[chord_notes])}
                ELSE {NewList(h, sequence) :
                         sequence \in PatternSequences(h.lists[chord_notes],
                                                       pattern)}
    IN  {IF m.h.lists[m.r] = <<>> THEN [h |-> m.h, r |-> chord_notes] ELSE m :
            m \in made}

\* the passes of the loop of arpeggiate for a positive note_length
Passes(a) ==
    IF a.total_beats <= 0 THEN 0
    ELSE ((a.total_beats + a.note_length) - 1) \div a.note_length

\* the loop of arpeggiate from pass idx on: notes.append(MidiNote(...))
RECURSIVE ArpeggiateLoopOn(_, _, _, _, _, _)
ArpeggiateLoopOn(h, a, sequence, notes, idx, draws) ==
    LET current_beat == a.start_beat + (idx * a.note_length)
    IN  IF current_beat < a.start_beat + a.total_beats
        THEN ArpeggiateLoopOn(
                 AppendNote(h, notes,
                            ArpeggioNote(a, [sequence |-> h.lists[sequence],
                                             idx |-> idx,
                                             current_beat |-> current_beat],
                                         draws[idx + 1])),
                 a, sequence, notes, idx + 1, draws)
        ELSE [h |-> h, r |-> notes]

\* quantize_notes: result = [] and one result.append(MidiNote(...)) per note
QuantizeNotesOn(h, a) ==
    LET made == NewList(h, <<>>)
    IN  [h |-> AppendNotes(made.h, made.r,
                           QuantizeNotes(NotesOf(h, a.notes), a.resolution,
                                         a.quantize_length), 1),
         r |-> made.r]

\* humanize: result = [] and one result.append(MidiNote(...)) per note
HumanizeOn(h, a, draws) ==
    LET made == NewList(h, <<>>)
        notes == NotesOf(h, a.notes)
    IN  [h |-> AppendNotes(made.h, made.r,
                           [i \in 1..Len(notes) |->
                               HumanizedNote(notes[i], draws[i].timing_offset,
                                             draws[i].vel_offset,
                                             draws[i].length_offset)], 1),
         r |-> made.r]

\* the notes of the input list with their identities, their references
ObjectsOn(h, notes) ==
    [i \in 1..Len(h.lists[notes]) |->
        [id |-> h.lists[notes][i], note |-> h.notes[h.lists[notes][i]]]]

\* the list returned by remove_overlaps filled from the i-th object on: an
\* input note is referred to again, a shortened note is a new one
RECURSIVE StoreObjects(_, _, _, _)
StoreObjects(h, list, objects, i) ==
    IF i > Len(objects) THEN h
    ELSE StoreObjects(IF objects[i].id = 0
                      THEN AppendNote(h, list, objects[i].note)
                      ELSE SetList(h, list, Append(h.lists[list], objects[i].id)),
                      list, objects, i + 1)

\* remove_overlaps: sorted(notes, ...) is a new list, result = [] is filled
\* and changed in place, and sorted(result, ...) is a new list again
RemoveOverlapsOn(h, notes, mode) ==
    IF h.lists[notes] = <<>> THEN NewList(h, <<>>)
    ELSE LET sorted_notes == SortedByStartThenPitch(ObjectsOn(h, notes))
             sorted_list == NewList(h, [i \in 1..Len(sorted_notes) |->
                                            sorted_notes[i].id])
             res == GroupsLoop(<<>>, GroupKeys(sorted_notes), sorted_notes, mode)
             made == NewList(sorted_list.h, <<>>)
         IN  [h |-> StoreObjects(made.h, made.r, SortedByStart(res), 1),
              r |-> made.r]

\* random_walk: with a scale, Scale.get_notes and the filter make a list
\* each; notes = [] and one notes.append(MidiNote(...)) per pass
RandomWalkOn(h, a, draws) ==
    LET scale == IF a.scale = None THEN NoScale ELSE h.lists[a.scale]
        built == IF a.scale = None THEN h
                 ELSE NewList(ScaleGetNotesOn(h, a.root % 12, a.scale,
                                              WalkOctaves).h,
                              WalkScaleNotes(a.start_note, scale, a.root)).h
        made == NewList(built, <<>>)
    IN  [h |-> AppendNotes(made.h, made.r,
                           RandomWalk([a EXCEPT !.scale = scale], draws), 1),
         r |-> made.r]

(***************************************************************************)
(* The calls made on the caller's objects.  A list argument is a reference *)
(* to one of the caller's lists.                                           *)
(***************************************************************************)
HeapCalls ==
    {[op |-> "Scale.get_notes", args |-> a] :
        a \in [root : {60}, scale : {3}, octaves : {1, 2}]}
    \cup {[op |-> "Chord.get_notes", args |-> a] :
        a \in [root : {60, 125}, chord_type : {1, 2}]}
    \cup {[op |-> "Chord.get_inversion", args |-> a] :
        a \in [root : {60, 125, 130}, chord_type : {1, 2},
               inversion : {0 - 1, 0, 1, 2}]}
    \cup {[op |-> "Chord.voice_lead", args |-> a] :
        a \in [from_chord : {4, 6}, to_root : {60, 130}, to_type : {1, 2}]}
    \cup {[op |-> "arpeggiate", args |-> a] :
        a \in [chord_notes : {4, 6}, pattern : Patterns, start_beat : {0},
               total_beats : {0, Beat \div 2}, note_length : {Beat \div 4},
               velocity_range : {<<70, 71>>, <<100, 70>>}]}
    \cup {[op |-> "quantize_notes", args |-> a] :
        a \in [notes : {5, 6}, resolution : {0, Beat \div 4},
               quantize_length : BOOLEAN]}
    \cup {[op |-> "humanize", args |-> a] :
        a \in [notes : {5, 6}, timing_variance : {0, 1},
               velocity_variance : {0 - 1, 1}, length_variance : {0}]}
    \cup {[op |-> "remove_overlaps", args |-> a] :
        a \in [notes : {5, 6}, mode : {"truncate", "remove"}]}
    \cup {[op |-> "random_walk", args |-> a] :
        a \in [start_note : {60}, num_notes : 0..2, step_size : {1},
               scale : {None, 3}, root : {60}, start_beat : {0},
               note_length : {Beat \div 2}, velocity_range : {<<100, 101>>}]}

InitHeap ==
    /\ pc = "call"
    /\ result = NoResult
    /\ locals = [lists |-> CallerLists, notes |-> CallerNotes, calls |-> 1]
    /\ \E c \in HeapCalls : op = c.op /\ args = c.args

\* the call returns the list out.r and leaves the objects out.h
ReturnOn(out) ==
    /\ result' = Ok(out.r)
    /\ locals' = out.h
    /\ pc' = "done"
    /\ UNCHANGED <<op, args>>

\* the call raises and leaves the objects h
RaiseOn(h, exc) ==
    /\ result' = Raise(exc)
    /\ locals' = h
    /\ pc' = "done"
    /\ UNCHANGED <<op, args>>

Scale_get_notes_on_heap ==
    /\ pc = "call"
    /\ op = "Scale.get_notes"
    /\ ReturnOn(ScaleGetNotesOn(locals, args.root, args.scale, args.octaves))

Chord_get_notes_on_heap ==
    /\ pc = "call"
    /\ op = "Chord.get_notes"
    /\ ReturnOn(ChordGetNotesOn(locals, args.root, args.chord_type))

\* inversion % len(notes) raises when no tone of the chord is in range
get_inversion_on_heap ==
    /\ pc = "call"
    /\ op = "Chord.get_inversion"
    /\ LET got == ChordGetNotesOn(locals, args.root, args.chord_type)
       IN  IF got.h.lists[got.r] = <<>>
           THEN RaiseOn(got.h, "ZeroDivisionError")
           ELSE ReturnOn(GetInversionOn(locals, args.root, args.chord_type,
                                        args.inversion))

\* the first candidate raises when no tone of the chord is in range
voice_lead_on_heap ==
    /\ pc = "call"
    /\ op = "Chord.voice_lead"
    /\ LET got == ChordGetNotesOn(locals, args.to_root, args.to_type)
       IN  IF locals.lists[args.from_chord] # <<>> /\ got.h.lists[got.r] = <<>>
           THEN RaiseOn(got.h, "ZeroDivisionError")
           ELSE ReturnOn(VoiceLeadOn(locals, args.from_chord, args.to_root,
                                     args.to_type))

\* the whole call for a positive note_length: the first pass raises when
\* randint has nothing to draw
arpeggiate_on_heap ==
    /\ pc = "call"
    /\ op = "arpeggiate"
    /\ IF locals.lists[args.chord_notes] = <<>>
       THEN ReturnOn(NewList(locals, <<>>))
       ELSE \E sequence \in SequenceOn(locals, args.chord_notes, args.pattern) :
                LET notes == NewList(sequence.h, <<>>)
                    range == RandInt(args.velocity_range[1],
                                     args.velocity_range[2])
                IN  IF Passes(args) > 0 /\ range = {}
                    THEN RaiseOn(notes.h, "ValueError")
                    ELSE \E draws \in [1..Passes(args) -> range] :
                             ReturnOn(ArpeggiateLoopOn(notes.h, args, sequence.r,
                                                       notes.r, 0, draws))

quantize_notes_on_heap ==
    /\ pc = "call"
    /\ op = "quantize_notes"
    /\ ReturnOn(QuantizeNotesOn(locals, args))

\* the first pass raises when randint has nothing to draw
humanize_on_heap ==
    /\ pc = "call"
    /\ op = "humanize"
    /\ IF /\ locals.lists[args.notes] # <<>>
          /\ RandInt(0 - args.velocity_variance, args.velocity_variance) = {}
       THEN RaiseOn(NewList(locals, <<>>).h, "ValueError")
       ELSE \E draws \in [1..Len(locals.lists[args.notes]) -> HumanizeDraws(args)] :
                ReturnOn(HumanizeOn(locals, args, draws))

remove_overlaps_on_heap ==
    /\ pc = "call"
    /\ op = "remove_overlaps"
    /\ ReturnOn(RemoveOverlapsOn(locals, args.notes, args.mode))

random_walk_on_heap ==
    /\ pc = "call"
    /\ op = "random_walk"
    /\ \E draws \in [1..args.num_notes ->
                        [step : RandInt(0 - args.step_size, args.step_size),
                         velocity : RandInt(args.velocity_range[1],
                                            args.velocity_range[2])]] :
           ReturnOn(RandomWalkOn(locals, args, draws))

\* the caller drops what the call made and returned and makes another call
\* on its objects as the call left them
next_call ==
    /\ pc = "done"
    /\ locals.calls < MaxCalls
    /\ locals' = [lists |-> SubSeq(locals.lists, 1, Len(CallerLists)),
                  notes |-> SubSeq(locals.notes, 1, Len(CallerNotes)),
                  calls |-> locals.calls + 1]
    /\ \E c \in HeapCalls : op' = c.op /\ args' = c.args
    /\ pc' = "call"
    /\ result' = NoResult

NextHeap ==
    \/ Scale_get_notes_on_heap
    \/ Chord_get_notes_on_heap
    \/ get_inversion_on_heap
    \/ voice_lead_on_heap
    \/ arpeggiate_on_heap
    \/ quantize_notes_on_heap
    \/ humanize_on_heap
    \/ remove_overlaps_on_heap
    \/ random_walk_on_heap
    \/ next_call

SpecHeap == InitHeap /\ [][NextHeap]_vars

(***************************************************************************)
(* Claims about NoteName, checked under SpecNoteName.                      *)
(***************************************************************************)

\* C1: for every pitch number p in 0..127, parsing the sharp-spelled name
\* that from_midi renders for p (octave -1 names included) gives back p.
C1_RoundTripSharp ==
    (Returned("from_midi") /\ args.midi_number \in 0..127 /\ ~args.use_flats)
        => ToMidi(result.value, 4) = Ok(args.midi_number)

\* C1 witness: pitch 5 was rendered as "F-1", an octave -1 name.
C1_Witness ==
    /\ Returned("from_midi")
    /\ args.midi_number = 5
    /\ ~args.use_flats
    /\ result.value = <<"F", "-", "1">>

\* the name is empty, all whitespace, or does not start with a letter A-G
NoNoteLetter(name) ==
    \/ Strip(name) = <<>>
    \/ Upper(Head(Strip(name))) \notin DOMAIN NOTE_TO_PC

\* C2: to_midi never raises; a name that is empty, only whitespace or does
\* not start with a letter A-G gives 60, every other name a pitch in 0..127.
C2_ToMidiNeverRaises ==
    Returned("to_midi") =>
        /\ ~result.raised
        /\ NoNoteLetter(args.note_name) => result.value = 60
        /\ result.value \in 0..127

\* the name without its last accidental mark
WithoutLastAccidental(name) ==
    LET run == AccidentalRun(Tail(name))
    IN  SubSeq(name, 1, run) \o SubSeq(name, run + 2, Len(name))

\* the name is letter + accidentals + octave with at least one accidental,
\* the last of them '#' or 'b', and an explicit octave integer
HasLastAccidental(name) ==
    /\ name # <<>>
    /\ Head(name) \in DOMAIN NOTE_TO_PC
    /\ AccidentalRun(Tail(name)) >= 1
    /\ name[AccidentalRun(Tail(name)) + 1] \in {"#", "b"}
    /\ LET rest == SubSeq(name, AccidentalRun(Tail(name)) + 2, Len(name))
       IN  /\ ~ParseInt(rest).raised
           /\ rest = IntToStr(ParseInt(rest).value)

\* C3: each accidental mark changes the parsed pitch by exactly one
\* semitone: with neither result clamped, letter+acc+'#'+o parses to one more
\* and letter+acc+'b'+o to one less than letter+acc+o.
C3_AccidentalIsOneSemitone ==
    (/\ Returned("to_midi")
     /\ HasLastAccidental(args.note_name)
     /\ ToMidiUnclamped(args.note_name, args.default_octave) \in 0..127
     /\ ToMidiUnclamped(WithoutLastAccidental(args.note_name),
                        args.default_octave) \in 0..127)
        => result.value =
              ToMidi(WithoutLastAccidental(args.note_name),
                     args.default_octave).value
              + (IF args.note_name[AccidentalRun(Tail(args.note_name)) + 1] = "#"
                 THEN 1 ELSE 0 - 1)

(***************************************************************************)
(* Claims about Scale, checked under SpecScale.                            *)
(***************************************************************************)

\* the k-th value the double loop of get_notes considers (k from 1), in
\* octave-major then catalog order
Considered(root, scale, k) ==
    root + scale[((k - 1) % Len(scale)) + 1] + (12 * ((k - 1) \div Len(scale)))

\* how many of the first k considered values are pitch numbers
InRangeUpTo(root, scale, k) ==
    Cardinality({j \in 1..k : Considered(root, scale, j) \in 0..127})

\* C4: get_notes returns, in octave-major then catalog order, exactly the
\* values root+interval+12*o (o in 0..octaves-1) that lie in 0..127: values
\* out of range are dropped, not clamped; every element is in 0..127 and the
\* length is at most len(scale)*octaves; (60, MAJOR) gives
\* [60,62,64,65,67,69,71] and (60, MAJOR, 2) 14 elements, element 7 being 72.
C4_GetNotesKeepsInRange ==
    Returned("Scale.get_notes") =>
        LET root == args.root
            scale == args.scale
            total == Len(scale) * args.octaves
            notes == result.value
        IN  /\ \A j \in 1..Len(notes) : notes[j] \in 0..127
            /\ Len(notes) <= total
            /\ Len(notes) = InRangeUpTo(root, scale, total)
            /\ \A k \in 1..total :
                  Considered(root, scale, k) \in 0..127
                      => notes[InRangeUpTo(root, scale, k)]
                            = Considered(root, scale, k)
            /\ (root = 60 /\ scale = MAJOR /\ args.octaves = 1)
                  => notes = <<60, 62, 64, 65, 67, 69, 71>>
            /\ (root = 60 /\ scale = MAJOR /\ args.octaves = 2)
                  => (Len(notes) = 14 /\ notes[8] = 72)

\* C4 witness: two octaves of C major from pitch 120, where the values above
\* 127 were dropped and five notes remain.
C4_Witness ==
    /\ Returned("Scale.get_notes")
    /\ args.root = 120
    /\ args.scale = MAJOR
    /\ args.octaves = 2
    /\ result.value = <<120, 122, 124, 125, 127>>

\* C5: is_in_scale(pitch, root, interval_set) is true exactly when
\* (pitch - root) mod 12 equals some member of the interval set reduced
\* mod 12, also for interval sets with offsets of 12 or more.
C5_IsInScaleModTwelve ==
    (Returned("Scale.is_in_scale")
        /\ args.note \in 0..127 /\ args.root \in 0..127) =>
        (result.value <=>
            \E i \in 1..Len(args.scale) :
                args.scale[i] % 12 = (args.note - args.root) % 12)

\* C6: for a pitch in 0..127 and a non-empty interval set with offsets in
\* 0..11, nearest_scale_note returns a pitch in 0..127 that belongs to the
\* scale and is at minimal distance from the input among all in-scale pitches
\* in 0..127; when the searched window has no candidate it returns the input.
C6_NearestIsNearest ==
    Returned("Scale.nearest_scale_note") =>
        LET note == args.note
            root == args.root
            scale == args.scale
            InScale(p) == Contains(scale, (p - root) % 12)
            base == (FloorDiv12(note) * 12) + (root % 12)
        IN  /\ (/\ note \in 0..127
                /\ root \in 0..127
                /\ scale # <<>>
                /\ \A i \in 1..Len(scale) : scale[i] \in 0..11)
               => /\ result.value \in 0..127
                  /\ InScale(result.value)
                  /\ \A p \in 0..127 :
                        InScale(p) => Abs(result.value - note) <= Abs(p - note)
            /\ ScaleGetNotes(base - 12, scale, 3) = <<>> => result.value = note

(***************************************************************************)
(* Claims about Chord, checked under SpecChord.                            *)
(***************************************************************************)

\* C7: get_inversion(root, type, k) is get_notes(root, type) after k mod n
\* steps "add 12 to the first element and move it to the end", n being the
\* number of chord tones get_notes returns: the first k mod n tones end up
\* last, an octave higher, in their order; (60, MAJOR, 1) gives [64,67,72],
\* (60, MAJOR, 2) gives [67,72,76], inversion 0 is the root position and
\* inversions k and k+n are equal.
C7_InversionRotates ==
    (Returned("Chord.get_inversion")
        /\ ChordGetNotes(args.root, args.chord_type) # <<>>) =>
        LET notes == ChordGetNotes(args.root, args.chord_type)
            n == Len(notes)
            m == args.inversion % n
        IN  /\ ~result.raised
            /\ result.value =
                  [i \in 1..n |-> IF i + m <= n THEN notes[i + m]
                                  ELSE notes[i + m - n] + 12]
            /\ args.inversion = 0 => result.value = notes
            /\ result = GetInversion(args.root, args.chord_type,
                                     args.inversion + n)
            /\ (args.root = 60 /\ args.chord_type = ChordMAJOR
                    /\ args.inversion = 1) => result.value = <<64, 67, 72>>
            /\ (args.root = 60 /\ args.chord_type = ChordMAJOR
                    /\ args.inversion = 2) => result.value = <<67, 72, 76>>

\* C7 witness: the second inversion of C major, asked for as inversion 5.
C7_Witness ==
    /\ Returned("Chord.get_inversion")
    /\ args.root = 60
    /\ args.chord_type = ChordMAJOR
    /\ args.inversion = 5
    /\ result.value = <<67, 72, 76>>

\* C8: get_inversion and voice_lead never raise when given a non-empty
\* interval set, whatever the root, the inversion index and the previous
\* chord, also when every chord tone root+interval is outside 0..127.
C8_ChordNeverRaises ==
    (/\ pc = "done"
     /\ op \in {"Chord.get_inversion", "Chord.voice_lead"}
     /\ (IF op = "Chord.get_inversion" THEN args.chord_type ELSE args.to_type)
            # <<>>)
        => ~result.raised

\* the candidate of inversion index inv and its movement cost: the distance
\* of each voice the previous chord also has, 12 for each voice beyond it
CandidateCost(from_chord, candidate) ==
    LET paired == 1..Min(Len(candidate), Len(from_chord))
        Dist[i \in paired] == Abs(candidate[i] - from_chord[i])
        RECURSIVE Total(_)
        Total(i) == IF i = 0 THEN 0 ELSE Dist[i] + Total(i - 1)
    IN  Total(Min(Len(candidate), Len(from_chord)))
        + 12 * Max(0, Len(candidate) - Len(from_chord))

\* result is the candidate of minimal cost, the lowest index among equals
IsFirstCheapest(from_chord, to_root, to_type, chosen) ==
    \E inv \in 0..(Len(to_type) - 1) :
        LET Cand(k) == GetInversion(to_root, to_type, k).value
        IN  /\ chosen = Cand(inv)
            /\ \A k \in 0..(Len(to_type) - 1) :
                  CandidateCost(from_chord, Cand(inv))
                      <= CandidateCost(from_chord, Cand(k))
            /\ \A k \in 0..(inv - 1) :
                  CandidateCost(from_chord, Cand(inv))
                      < CandidateCost(from_chord, Cand(k))

\* C9: with a non-empty previous chord, voice_lead returns the inversion of
\* the target chord (index in 0..len(type)-1) of minimal movement cost, the
\* cost being the sum over the positions both chords have of
\* |candidate[i] - previous[i]| plus 12 per candidate voice beyond the
\* previous chord; of equally cheap inversions it returns the lowest index.
\* (Stated for target chords with at least one tone in 0..127, which every
\* catalog chord on a root in 0..127 has: without one there is no inversion.)
C9_VoiceLeadFirstCheapest ==
    (/\ Returned("Chord.voice_lead")
     /\ args.from_chord # <<>>
     /\ ChordGetNotes(args.to_root, args.to_type) # <<>>)
        => /\ ~result.raised
           /\ IsFirstCheapest(args.from_chord, args.to_root, args.to_type,
                              result.value)

\* C9 witness: from the one-voice chord [62] to C major the root position
\* and the first inversion both cost 26; the root position was returned.
C9_Witness ==
    /\ Returned("Chord.voice_lead")
    /\ args.from_chord = <<62>>
    /\ args.to_root = 60
    /\ args.to_type = ChordMAJOR
    /\ CandidateCost(<<62>>, <<60, 64, 67>>) = CandidateCost(<<62>>, <<64, 67, 72>>)
    /\ result.value = <<60, 64, 67>>

(***************************************************************************)
(* Claims about empty collections, checked under SpecCollections.          *)
(***************************************************************************)

\* C10: an operation given an empty collection returns a default and no
\* error: voice_lead with an empty previous chord returns
\* get_notes(target_root, target_type), arpeggiate with an empty chord
\* returns an empty list, remove_overlaps with an empty list returns an
\* empty list.
C10_EmptyInputsGiveDefaults ==
    /\ (Returned("Chord.voice_lead") /\ args.from_chord = <<>>)
          => (/\ ~result.raised
              /\ result.value = ChordGetNotes(args.to_root, args.to_type))
    /\ (Returned("arpeggiate") /\ args.chord_notes = <<>>)
          => (~result.raised /\ result.value = <<>>)
    /\ (Returned("remove_overlaps") /\ args.notes = <<>>)
          => (~result.raised /\ result.value = <<>>)

\* C10 witness: voice_lead from no previous chord to a MAJOR_9 chord on pitch
\* 120, of which get_notes keeps three tones, returned those three tones.
C10_Witness ==
    /\ Returned("Chord.voice_lead")
    /\ args.from_chord = <<>>
    /\ args.to_root = 120
    /\ args.to_type = MAJOR_9
    /\ result.value = <<120, 124, 127>>


(***************************************************************************)
(* Claims about quantize_beat, quantize_notes and humanize, checked under  *)
(* SpecQuantize.                                                           *)
(***************************************************************************)

\* C11: with resolution > 0 quantize_beat returns a multiple of resolution
\* at most resolution/2 away from beat (so no multiple is nearer), (1.37,
\* 0.25) and (1.13, 0.25) giving 1.25, (1.6, 1.0) giving 2.0 and (0.4, 1.0)
\* giving 0.0; with resolution <= 0 it returns beat unchanged.
C11_QuantizeBeatNearest ==
    Returned("quantize_beat") =>
        /\ ~result.raised
        /\ IF args.resolution > 0
           THEN /\ result.value % args.resolution = 0
                /\ 2 * Abs(result.value - args.beat) <= args.resolution
                /\ \A k \in (0 - 2 * Beat)..(2 * Beat) :
                       k % args.resolution = 0 =>
                           Abs(result.value - args.beat) <= Abs(k - args.beat)
           ELSE result.value = args.beat
        /\ args = [beat |-> 13700, resolution |-> Beat \div 4]
               => result.value = 12500
        /\ args = [beat |-> 11300, resolution |-> Beat \div 4]
               => result.value = 12500
        /\ args = [beat |-> 16000, resolution |-> Beat] => result.value = 2 * Beat
        /\ args = [beat |-> 4000, resolution |-> Beat] => result.value = 0

\* C11 witness: 1.6 was quantized to quarter notes, upwards.
C11_Witness ==
    /\ Returned("quantize_beat")
    /\ args = [beat |-> 16000, resolution |-> Beat]
    /\ result = Ok(2 * Beat)

\* C12: for every note list and every resolution r > 0, with quantize_length
\* False or True, quantizing the result of quantize_notes(notes, r) again
\* gives the same notes in the same order.
C12_QuantizeNotesIdempotent ==
    (Returned("quantize_notes") /\ args.resolution > 0) =>
        /\ ~result.raised
        /\ QuantizeNotes(result.value, args.resolution, args.quantize_length)
               = result.value

\* C12 witness: two notes were quantized with their lengths, and the first
\* one changed both its start and its length.
C12_Witness ==
    /\ Returned("quantize_notes")
    /\ args.resolution > 0
    /\ args.quantize_length
    /\ Len(args.notes) = 2
    /\ result.value[1].start_beat # args.notes[1].start_beat
    /\ result.value[1].length_beats # args.notes[1].length_beats

\* the output note is the input note with its start, velocity and length
\* moved by at most the variances and then clamped
WithinVariances(a, input, output) ==
    \E timing_offset \in (0 - a.timing_variance)..a.timing_variance,
       vel_offset \in (0 - a.velocity_variance)..a.velocity_variance,
       length_offset \in (0 - a.length_variance)..a.length_variance :
        /\ output.start_beat = Max(0, input.start_beat + timing_offset)
        /\ output.velocity = Max(1, Min(127, input.velocity + vel_offset))
        /\ output.length_beats = Max(MinLength, input.length_beats + length_offset)

\* C13: for every input list, every variance setting and every random draw
\* humanize returns a list of the same length whose i-th note has the pitch
\* and channel of the i-th input note, velocity in 1..127, start >= 0 and
\* length > 0, its start, velocity and length being within the variances of
\* the input note's values before clamping.
C13_HumanizeWithinVariances ==
    Returned("humanize") =>
        /\ ~result.raised
        /\ Len(result.value) = Len(args.notes)
        /\ \A i \in 1..Len(args.notes) :
               /\ result.value[i].note_number = args.notes[i].note_number
               /\ result.value[i].channel = args.notes[i].channel
               /\ result.value[i].velocity \in 1..127
               /\ result.value[i].start_beat >= 0
               /\ result.value[i].length_beats > 0
               /\ WithinVariances(args, args.notes[i], result.value[i])


(***************************************************************************)
(* Claims about remove_overlaps and arpeggiate, checked under              *)
(* SpecCollections.                                                        *)
(***************************************************************************)

\* the input notes of one pitch in the order of their starts (equal starts
\* in list order), and the output notes of that pitch in output order
InputsOfPitch(notes, p) ==
    LET group == Group(SortedByStartThenPitch(Objects(notes)), p)
    IN  [i \in 1..Len(group) |-> group[i].note]

OutputsOfPitch(out, p) == SelectSeq(out, LAMBDA n : n.note_number = p)

\* what the claim says becomes of the i-th note of a pitch: cut at the
\* start of the next one when that one starts before its end
TruncatedAtNext(group, i) ==
    IF i < Len(group) /\ group[i + 1].start_beat < end_beat(group[i])
    THEN [group[i] EXCEPT
             !.length_beats = group[i + 1].start_beat - group[i].start_beat]
    ELSE group[i]

\* C14: in mode 'truncate', when a note starts before the end of the
\* previous kept note of its pitch, that previous note's length becomes
\* current.start_beat - previous.start_beat, its other fields unchanged, and
\* the current note is kept; (60, 0, 1), (60, 0.5, 1) gives the first note
\* with length 0.5 followed by the second unchanged.
C14_TruncateCutsPrevious ==
    (Returned("remove_overlaps") /\ args.mode = "truncate") =>
        /\ ~result.raised
        /\ \A p \in {args.notes[i].note_number : i \in 1..Len(args.notes)} :
               LET group == InputsOfPitch(args.notes, p)
               IN  OutputsOfPitch(result.value, p)
                       = [i \in 1..Len(group) |-> TruncatedAtNext(group, i)]
        /\ args.notes = <<MidiNote(60, 0, Beat, 100, 1),
                          MidiNote(60, Beat \div 2, Beat, 100, 1)>>
               => result.value = <<MidiNote(60, 0, Beat \div 2, 100, 1),
                                   MidiNote(60, Beat \div 2, Beat, 100, 1)>>

\* C15: the list remove_overlaps returns, in either mode, has no two notes
\* of the same pitch that overlap in time: of two distinct output notes a, b
\* of equal pitch with a.start_beat <= b.start_beat, b starts at or after
\* the end of a, also when the input has same-pitch notes starting at the
\* same beat or at most 0.01 beat apart.
C15_NoSamePitchOverlap ==
    Returned("remove_overlaps") =>
        /\ ~result.raised
        /\ \A i, j \in 1..Len(result.value) :
               (/\ i # j
                /\ result.value[i].note_number = result.value[j].note_number
                /\ result.value[i].start_beat <= result.value[j].start_beat)
                   => result.value[j].start_beat >= end_beat(result.value[i])


\* C16: for a non-empty chord, note_length > 0 and pattern 'up', the notes
\* arpeggiate returns have non-decreasing starts, the i-th (from 0) being
\* start_beat + i * note_length, all within [start_beat, start_beat +
\* total_beats), for every start_beat the caller passes.
C16_ArpeggioStartsOnGrid ==
    (/\ Returned("arpeggiate")
     /\ ~result.raised
     /\ args.chord_notes # <<>>
     /\ args.pattern = "up"
     /\ args.note_length > 0) =>
        \A i \in 1..Len(result.value) :
            /\ result.value[i].start_beat
                   = args.start_beat + ((i - 1) * args.note_length)
            /\ result.value[i].start_beat >= args.start_beat
            /\ result.value[i].start_beat < args.start_beat + args.total_beats
            /\ i > 1 => result.value[i - 1].start_beat
                            <= result.value[i].start_beat

\* C17: arpeggiate terminates for every input, its work bounded by its
\* arguments, also when note_length is zero or negative while total_beats is
\* positive and the chord is non-empty: every pass of the loop leaves less
\* of the span up to start_beat + total_beats to fill than the pass before
\* (nothing else changes the loop condition, so a pass that does not is
\* followed by passes without end).
C17_ArpeggiateLoopAdvances ==
    [][(op = "arpeggiate" /\ pc = "loop" /\ pc' = "loop") =>
           (args.start_beat + args.total_beats) - locals'.current_beat
               < (args.start_beat + args.total_beats) - locals.current_beat]_vars


(***************************************************************************)
(* Claims about random_walk, checked under SpecRandomWalk.                 *)
(***************************************************************************)

\* the arguments random_walk can draw with: a count, a largest step and a
\* velocity range that is not empty
CanDraw(a) ==
    /\ a.num_notes >= 0
    /\ a.step_size >= 0
    /\ a.velocity_range[1] <= a.velocity_range[2]

\* the pitch before the i-th returned one, start_note before the first
PreviousPitch(a, notes, i) ==
    IF i = 1 THEN a.start_note ELSE notes[i - 1].note_number

\* C18: with a catalog scale random_walk returns exactly num_notes notes,
\* every pitch in the scale built on root ((pitch - root) mod 12 is one of
\* the scale's intervals) and in the window 24..108, whatever the draws;
\* without a scale every pitch is in 24..108 and at most step_size
\* semitones from the previous pitch (start_note for the first) unless it
\* was clamped to an end of the window.
C18_RandomWalkStaysInScale ==
    (Returned("random_walk") /\ CanDraw(args)) =>
        /\ ~result.raised
        /\ (args.scale \in ScaleCatalog \/ args.scale = NoScale) =>
               /\ Len(result.value) = args.num_notes
               /\ \A i \in 1..Len(result.value) :
                      result.value[i].note_number \in WalkLow..WalkHigh
        /\ args.scale \in ScaleCatalog =>
               \A i \in 1..Len(result.value) :
                   Contains(args.scale,
                            (result.value[i].note_number - args.root) % 12)
        /\ args.scale = NoScale =>
               \A i \in 1..Len(result.value) :
                   \/ Abs(result.value[i].note_number
                          - PreviousPitch(args, result.value, i)) <= args.step_size
                   \/ result.value[i].note_number \in {WalkLow, WalkHigh}

\* C18 witness: three notes were walked in a catalog scale from a start
\* below the window, and the walk moved.
C18_Witness ==
    /\ Returned("random_walk")
    /\ CanDraw(args)
    /\ args.scale = PENTATONIC_MAJOR
    /\ args.start_note = 20
    /\ args.num_notes = 3
    /\ ~result.raised
    /\ result.value[1].note_number # result.value[3].note_number


(***************************************************************************)
(* Claims about MidiNote, checked under SpecMidiNote.                      *)
(***************************************************************************)

\* the value of lo..hi nearest to v
Nearest(lo, hi, v) == IF v < lo THEN lo ELSE IF v > hi THEN hi ELSE v

\* the value at or above lo nearest to v
NearestFrom(lo, v) == IF v < lo THEN lo ELSE v

InRange(note) ==
    /\ note.note_number \in 0..127
    /\ note.start_beat >= 0
    /\ note.length_beats > 0
    /\ note.velocity \in 1..127
    /\ note.channel \in 1..16

Fields == {"note_number", "start_beat", "length_beats", "velocity", "channel"}

\* the key of each field spelled in camelCase and spelled in snake_case
CompactKey ==
    [note_number |-> "noteNumber", start_beat |-> "startBeat",
     length_beats |-> "lengthBeats", velocity |-> "velocity",
     channel |-> "channel"]

VerboseKey ==
    [note_number |-> "note_number", start_beat |-> "start_beat",
     length_beats |-> "length_beats", velocity |-> "velocity",
     channel |-> "channel"]

Defaults ==
    [note_number |-> 60, start_beat |-> 0, length_beats |-> Beat,
     velocity |-> 100, channel |-> 1]

\* the value a field is decoded from: under the compact key, else under
\* the verbose key, else the default
Decoded(data, field) ==
    IF CompactKey[field] \in DOMAIN data THEN data[CompactKey[field]]
    ELSE IF VerboseKey[field] \in DOMAIN data THEN data[VerboseKey[field]]
    ELSE Defaults[field]

\* the note from_dict is to return for data
DecodedNote(data) ==
    [note_number |-> Nearest(0, 127, Decoded(data, "note_number")),
     start_beat |-> NearestFrom(0, Decoded(data, "start_beat")),
     length_beats |-> NearestFrom(MinLength, Decoded(data, "length_beats")),
     velocity |-> Nearest(1, 127, Decoded(data, "velocity")),
     channel |-> Nearest(1, 16, Decoded(data, "channel"))]

AllTonesInRange(root, chord_type) ==
    \A i \in 1..Len(chord_type) : root + chord_type[i] \in 0..127

\* C22: for every catalog chord type (triads, sevenths, extended and
\* added-tone chords), every root whose chord tones are all in range and
\* every inversion index, get_inversion yields a standard inversion: the
\* first element of the result, the bass, is the lowest pitch of the result.
C22_BassIsLowest ==
    (/\ Returned("Chord.get_inversion")
     /\ args.chord_type \in ChordCatalog
     /\ AllTonesInRange(args.root, args.chord_type)) =>
        /\ ~result.raised
        /\ \A i \in 1..Len(result.value) : result.value[1] <= result.value[i]

\* C30: every pitch get_inversion and voice_lead return is a pitch number in
\* 0..127, for every root in 0..127, every catalog chord type and every
\* inversion index.
C30_ChordPitchesInRange ==
    /\ (/\ Returned("Chord.get_inversion")
        /\ args.root \in 0..127
        /\ args.chord_type \in ChordCatalog
        /\ ~result.raised) =>
           \A i \in 1..Len(result.value) : result.value[i] \in 0..127
    /\ (/\ Returned("Chord.voice_lead")
        /\ args.to_root \in 0..127
        /\ args.to_type \in ChordCatalog
        /\ ~result.raised) =>
           \A i \in 1..Len(result.value) : result.value[i] \in 0..127


(***************************************************************************)
(* Further claims about remove_overlaps and arpeggiate, checked under      *)
(* SpecCollections.                                                        *)
(***************************************************************************)

\* what the claim says becomes of the notes of a pitch from the i-th on in
\* mode 'truncate': a note overlapped by the next one is cut at the start of
\* that one, or dropped when the cut would leave at most 0.01 beat
RECURSIVE CutOrDropped(_, _)
CutOrDropped(group, i) ==
    IF i > Len(group) THEN <<>>
    ELSE (IF i < Len(group) /\ group[i + 1].start_beat < end_beat(group[i])
          THEN LET new_length == group[i + 1].start_beat - group[i].start_beat
               IN  IF new_length <= MinLength THEN <<>>
                   ELSE <<[group[i] EXCEPT !.length_beats = new_length]>>
          ELSE <<group[i]>>)
         \o CutOrDropped(group, i + 1)

\* C23: in mode 'truncate', when the length current.start_beat -
\* previous.start_beat left to the previous kept note of the pitch would be
\* at most 0.01 (two notes of a pitch starting at the same beat, say), that
\* previous note is dropped from the output and the current note kept, so
\* the output has fewer notes than the input.
C23_TruncateDropsNegligible ==
    (Returned("remove_overlaps") /\ args.mode = "truncate") =>
        /\ ~result.raised
        /\ \A p \in {args.notes[i].note_number : i \in 1..Len(args.notes)} :
               OutputsOfPitch(result.value, p)
                   = CutOrDropped(InputsOfPitch(args.notes, p), 1)

\* the notes of a pitch that mode 'remove' keeps, from the i-th on: a note
\* is kept when it starts at or after the end of the note kept last
RECURSIVE KeptFrom(_, _, _)
KeptFrom(group, i, kept) ==
    IF i > Len(group) THEN kept
    ELSE KeptFrom(group, i + 1,
                  IF kept = <<>> \/ group[i].start_beat >= end_beat(kept[Len(kept)])
                  THEN Append(kept, group[i]) ELSE kept)

\* C24: in mode 'remove' a note that starts before the end of the previous
\* kept note of its pitch is discarded and that previous note stays as it
\* is; the notes after it are compared with the note kept last, not with
\* the discarded one, and every output note is an unmodified input note.
C24_RemoveKeepsFirst ==
    (Returned("remove_overlaps") /\ args.mode = "remove") =>
        /\ ~result.raised
        /\ \A p \in {args.notes[i].note_number : i \in 1..Len(args.notes)} :
               OutputsOfPitch(result.value, p)
                   = KeptFrom(InputsOfPitch(args.notes, p), 1, <<>>)
        /\ \A i \in 1..Len(result.value) :
               \E j \in 1..Len(args.notes) : result.value[i] = args.notes[j]

\* C24 witness: of three notes of pitch 60 the second, overlapping the
\* first, was discarded and the third, which starts inside the discarded
\* one but at the end of the first, was kept.
C24_Witness ==
    /\ Returned("remove_overlaps")
    /\ args.mode = "remove"
    /\ args.notes = <<MidiNote(60, 0, Beat \div 2, 100, 1),
                      MidiNote(60, MinLength \div 2, Beat, 100, 1),
                      MidiNote(60, Beat \div 2, Beat, 100, 1)>>
    /\ result.value = <<MidiNote(60, 0, Beat \div 2, 100, 1),
                        MidiNote(60, Beat \div 2, Beat, 100, 1)>>

\* C25: remove_overlaps is pitch-local: for every pitch p the output notes
\* of pitch p are those the call returns for the input notes of pitch p
\* alone, whatever notes of other pitches the input holds, and the whole
\* output is in non-decreasing order of start_beat.
C25_PitchLocalAndSorted ==
    Returned("remove_overlaps") =>
        /\ ~result.raised
        /\ \A p \in {args.notes[i].note_number : i \in 1..Len(args.notes)} :
               OutputsOfPitch(result.value, p)
                   = RemoveOverlaps(OutputsOfPitch(args.notes, p), args.mode)
        /\ \A i \in 1..(Len(result.value) - 1) :
               result.value[i].start_beat <= result.value[i + 1].start_beat

\* C25 witness: a note of pitch 64 lay in time over two overlapping notes of
\* pitch 60, the first of which was cut while the note of pitch 64 came out
\* as it went in.
C25_Witness ==
    /\ Returned("remove_overlaps")
    /\ args.mode = "truncate"
    /\ args.notes = <<MidiNote(60, 0, Beat, 100, 1),
                      MidiNote(64, MinLength \div 2, Beat, 100, 1),
                      MidiNote(60, Beat \div 2, Beat, 100, 1)>>
    /\ result.value = <<MidiNote(60, 0, Beat \div 2, 100, 1),
                        MidiNote(64, MinLength \div 2, Beat, 100, 1),
                        MidiNote(60, Beat \div 2, Beat, 100, 1)>>


\* C26: no note arpeggiate returns extends past the end of the filled span:
\* for note_length > 0 and every total_beats, a total_beats that is not a
\* multiple of note_length and leaves a remainder shorter than 0.0112 beat
\* included, every output note ends at or before start_beat + total_beats.
C26_ArpeggioWithinSpan ==
    (/\ Returned("arpeggiate")
     /\ ~result.raised
     /\ args.note_length > 0) =>
        \A i \in 1..Len(result.value) :
            end_beat(result.value[i]) <= args.start_beat + args.total_beats

\* the sequence of pitches the claim gives for a pattern, by position
SequenceOf(chord, pattern) ==
    LET n == Len(chord)
    IN  CASE pattern = "down" -> [i \in 1..n |-> chord[n + 1 - i]]
          [] pattern = "updown" /\ n >= 3 ->
                [i \in 1..((2 * n) - 2) |->
                    IF i <= n THEN chord[i] ELSE chord[(2 * n) - i]]
          [] pattern = "downup" /\ n >= 3 ->
                [i \in 1..((2 * n) - 2) |->
                    IF i <= n THEN chord[n + 1 - i] ELSE chord[(i - n) + 1]]
          [] pattern = "downup" -> [i \in 1..n |-> chord[n + 1 - i]]
          [] OTHER -> chord

\* C27: the i-th note (from 0) arpeggiate returns has the pitch
\* sequence[i mod len(sequence)], the sequence being the chord for 'up' and
\* unknown patterns, the chord reversed for 'down', the chord followed by
\* its reversed interior for 'updown', the reversed chord followed by its
\* interior for 'downup', and the plain forward (reversed) chord for
\* 'updown' ('downup') on fewer than 3 pitches; a note with
\* i mod len(sequence) = 0 has velocity min(127, draw + 10) for a draw in
\* velocity_range, every other note a velocity in velocity_range.
C27_ArpeggioFollowsPattern ==
    (/\ Returned("arpeggiate")
     /\ ~result.raised
     /\ args.chord_notes # <<>>
     /\ args.pattern # "random") =>
        LET sequence == SequenceOf(args.chord_notes, args.pattern)
            draws == args.velocity_range[1]..args.velocity_range[2]
        IN  \A i \in 1..Len(result.value) :
                /\ result.value[i].note_number
                       = sequence[((i - 1) % Len(sequence)) + 1]
                /\ IF (i - 1) % Len(sequence) = 0
                   THEN \E draw \in draws :
                            result.value[i].velocity = Min(127, draw + 10)
                   ELSE result.value[i].velocity \in draws

\* C27 witness: 'updown' over three pitches returned five notes, going up,
\* back through the middle pitch and starting over.
C27_Witness ==
    /\ Returned("arpeggiate")
    /\ ~result.raised
    /\ args.pattern = "updown"
    /\ args.chord_notes = <<60, 64, 67>>
    /\ Len(result.value) = 5
    /\ [i \in 1..5 |-> result.value[i].note_number] = <<60, 64, 67, 64, 60>>
    /\ result.value[5].velocity = 81
    /\ result.value[4].velocity = 70


(***************************************************************************)
(* A further claim about random_walk, checked under SpecRandomWalk.        *)
(***************************************************************************)

\* C28: for note_length > 0 and start_beat >= 0 the i-th note (from 0)
\* random_walk returns starts at start_beat + i * note_length, and no note
\* ends after the next one starts, also when note_length is smaller than
\* 0.0112 beat.
C28_WalkNotesDoNotOverlap ==
    (/\ Returned("random_walk")
     /\ ~result.raised
     /\ args.note_length > 0
     /\ args.start_beat >= 0) =>
        \A i \in 1..Len(result.value) :
            /\ result.value[i].start_beat
                   = args.start_beat + ((i - 1) * args.note_length)
            /\ i < Len(result.value) =>
                   end_beat(result.value[i]) <= result.value[i + 1].start_beat


(***************************************************************************)
(* A further claim about quantize_notes, checked under SpecQuantize.       *)
(***************************************************************************)

\* C29: quantize_notes with a resolution r > 0 returns as many notes as it
\* was given, in the same order, each with the pitch, velocity and channel
\* of its input note and the start quantize_beat(input start, r); with
\* quantize_length every output length is a multiple of r and at least r,
\* without it every length is the input length.
C29_QuantizedLengthsOnGrid ==
    (Returned("quantize_notes") /\ args.resolution > 0) =>
        /\ ~result.raised
        /\ Len(result.value) = Len(args.notes)
        /\ \A i \in 1..Len(result.value) :
               /\ result.value[i].note_number = args.notes[i].note_number
               /\ result.value[i].velocity = args.notes[i].velocity
               /\ result.value[i].channel = args.notes[i].channel
               /\ result.value[i].start_beat
                      = QuantizeBeat(args.notes[i].start_beat, args.resolution)
               /\ IF args.quantize_length
                  THEN /\ result.value[i].length_beats % args.resolution = 0
                       /\ result.value[i].length_beats >= args.resolution
                  ELSE result.value[i].length_beats = args.notes[i].length_beats


(***************************************************************************)
(* A claim about the objects passed to the calls, checked under SpecHeap.  *)
(***************************************************************************)

\* C21: quantize_notes, humanize, remove_overlaps, arpeggiate, random_walk
\* and the get_notes, get_inversion and voice_lead of Scale and Chord never
\* change what they are given: after any sequence of calls every list of
\* the caller (the note list, the chord pitch list, the catalog interval
\* lists) has the length, order and elements it had and every note of the
\* caller its field values, and the list a call returns is none of the
\* caller's lists.
C21_InputsNotMutated ==
    /\ SubSeq(locals.lists, 1, Len(CallerLists)) = CallerLists
    /\ SubSeq(locals.notes, 1, Len(CallerNotes)) = CallerNotes
    /\ (pc = "done" /\ ~result.raised) =>
           result.value \in (Len(CallerLists) + 1)..Len(locals.lists)

\* C21 witness: in a call after the first, arpeggiate with pattern 'random'
\* returned notes in an order of pitches other than the order of the
\* caller's chord, having shuffled its copy.
C21_Witness ==
    /\ Returned("arpeggiate")
    /\ locals.calls = 2
    /\ args.pattern = "random"
    /\ ~result.raised
    /\ Len(locals.lists[result.value]) = 2
    /\ locals.notes[locals.lists[result.value][1]].note_number = 64
    /\ locals.lists[args.chord_notes] = <<67, 60, 64>>

====
